---- MODULE Spec2Model ----
(***************************************************************************)
(* Model of the radiance renderer's resource machinery:                    *)
(*   - RenderCore::frame and the deletion queue it advances                *)
(*     (crates/lib/core/src/lib.rs),                                       *)
(*   - the reference-counted Mesh asset and its release path               *)
(*     (crates/lib/asset-runtime/src/mesh.rs),                             *)
(*   - the UUID -> AssetId cache of AssetRuntime::load_inner               *)
(*     (crates/lib/asset-runtime/src/lib.rs),                              *)
(*   - the LOD loop of Importer::mesh                                      *)
(*     (crates/lib/asset/src/import/mesh/mod.rs).                          *)
(* Three specifications share the module: Spec / FairSpec (frames,         *)
(* deletion queue, mesh references), LoadSpec (asset cache) and            *)
(* ImportSpec / ImportFairSpec (meshlet LOD construction).                 *)
(***************************************************************************)
EXTENDS Integers, Sequences, FiniteSets, TLC

VARIABLES
    \* ---- RenderCore / graph / device (core/src/lib.rs)
    frame,                \* frames begun by RenderCore::frame (index of the newest frame)
    submitted,            \* frames whose GPU work the graph has submitted
    completed,            \* frames whose GPU work the device reports complete
    last_frame_snapshot,  \* RenderCore.last_frame_snapshot
    frame_result,         \* outcome of the last RenderCore::frame call
    delete,               \* RenderCore.delete: the DeletionQueue's entries
    \* ---- GPU resources
    alloc,                \* resources physically allocated on the device
    destroy_count,        \* how often each resource was physically destroyed
    retire_log,           \* <<resource, snapshot active when it was handed to the queue>>
    \* ---- Mesh assets behind RRef (asset-runtime/src/mesh.rs)
    nobjs,                \* load_mesh_from_disk calls that allocated something
    mesh,                 \* each Mesh object: its state and strong reference count
    chan,                 \* pending-release channel (Sender<DelRes> / Receiver<DelRes>)
    \* ---- AssetRuntime of asset-runtime/src/lib.rs
    id_map,               \* FxHashMap<Uuid, AssetId>
    assets,               \* Vec<LoadedAsset>
    reads,                \* AssetSystem::load calls per UUID
    allocs,               \* GPU objects created per UUID
    failures,             \* load requests per UUID that returned Err
    requests,             \* load requests per UUID (top level and re-entrant)
    returned,             \* AssetIds returned by Ok load requests, per UUID
    handles,              \* AssetIds of each UUID currently held by callers
    last_load,            \* the last top-level load_asset call
    load_calls,           \* number of load_asset calls so far
    \* ---- Importer::mesh (asset/src/import/mesh/mod.rs)
    pc,                   \* position of Importer::mesh
    meshlets,             \* Meshlets.meshlets
    simplify,             \* the active range, as <<start, end>> (end exclusive)
    lod,                  \* the lod counter
    groups,               \* result of generate_groups for the level
    par,                  \* results of the parallel group tasks, by group index
    next_start,           \* next_start of the level
    \* ---- RenderGraph frame (passes declared by passes/src/mesh/visbuffer.rs)
    g_pc,                 \* position of the frame: build, exec, done
    g_passes,             \* the passes declared for the frame, in declaration order
    g_stream,             \* the command stream synthesized for the frame
    g_done,               \* commands of the stream the device has executed
    g_tickets,            \* staging uploads submitted so far (StageTickets issued)
    g_landed,             \* tickets whose upload the device has completed
    \* ---- Mesh container (asset/src/mesh.rs, Importer::convert_meshlets)
    c_pc,                 \* position: import, converted, encoded, decoded
    c_in,                 \* Meshlets.meshlets handed to convert_meshlets
    c_mesh,               \* the Mesh convert_meshlets returns
    c_bytes,              \* the encoded container
    c_out,                \* the Mesh decoded from the container
    \* ---- Renderer of the editor (editor/src/ui/render/mod.rs)
    r_scene,              \* Renderer.scene: "none" or the scene's UUID
    r_loaded,             \* scenes resident in the Renderer's AssetRuntime
    r_label,              \* what the last render call put into the panel
    r_log,                \* ERROR events logged
    r_loads,              \* load_scene calls
    r_frame_passes,       \* passes the last render call added to the frame
    r_renders,            \* render calls
    r_in,                 \* the last render call: its asset system, what load_scene did
    r_panic,              \* a render call panicked
    \* ---- Transient resources of one graph execution
    a_pc,                 \* position: declared, compiled
    a_life,               \* per transient resource: the passes of its first and last use
    a_block,              \* per transient resource: its backing memory block, 0 = none yet
    \* ---- Teardown (RenderCore::destroy, Renderer::destroy)
    t_state,              \* running, runtime_destroyed, destroyed, panic
    \* ---- RenderCore::frame, statement by statement (core/src/lib.rs:64-73)
    f_pc,                 \* the statement the call is at, or "idle" between calls
    f_snap,               \* the local `snap`
    f_trace,              \* the statements the current (or last) call has executed
    \* ---- VisBuffer.visibility (passes/src/mesh/visbuffer.rs)
    v_size,               \* size of the visibility buffer in u32 pairs, 0 = None
    v_buf,                \* the visibility buffer now held, 0 = None
    v_nbufs,              \* visibility buffers created so far
    v_destroyed,          \* visibility buffers physically destroyed
    v_refs,               \* per frame submitted: the visibility buffer its commands use
    v_completed,          \* frames the device has finished
    v_cur,                \* the half of the visibility buffer the next frame reads
    w_cur,                \* the half of the workgroup buffer the next frame reads
    v_io,                 \* per frame: the halves its passes read and write
    \* ---- Importer::find_connections (asset/src/import/mesh/mod.rs:248-288)
    n_pc,                 \* position: called, returned
    n_meshlets,           \* per meshlet: its triangles, as triples of vertex indices
    n_range,              \* the active range, as <<start, end>> (end exclusive)
    n_out,                \* the connections returned
    \* ---- AssetRuntime::load_mesh_from_disk (asset-runtime/src/mesh.rs:70-164)
    l_pc,                 \* position: called, returned, failed, panicked
    l_mesh,               \* the Mesh asset read from the source
    l_gpu,                \* the buffer allocated and written, the GpuMeshlets in it
    \* ---- GltfImporter::import (rad-editor/src/asset/import.rs:84-263)
    p_total,              \* `total`: the items of each phase
    p_phase,              \* the phase that is running: 1..4, 5 after the last
    p_task,               \* per phase and item: where its closure is, and its `old`
    p_prog,               \* the AtomicUsize `prog` of the running phase
    p_log,                \* the progress calls of the running phase, in call order
    p_result              \* running, Ok or Err

coreVars   == <<frame, submitted, completed, last_frame_snapshot, frame_result, delete,
                alloc, destroy_count, retire_log, nobjs, mesh, chan>>
loadVars   == <<id_map, assets, reads, allocs, failures, requests, returned, handles,
                last_load, load_calls>>
importVars == <<pc, meshlets, simplify, lod, groups, par, next_start>>
graphVars  == <<g_pc, g_passes, g_stream, g_done, g_tickets, g_landed>>
codecVars  == <<c_pc, c_in, c_mesh, c_bytes, c_out>>
renderVars == <<r_scene, r_loaded, r_label, r_log, r_loads, r_frame_passes, r_renders,
                r_in, r_panic>>
aliasVars  == <<a_pc, a_life, a_block>>
teardownVars == <<t_state>>
frameVars  == <<f_pc, f_snap, f_trace>>
visVars    == <<v_size, v_buf, v_nbufs, v_destroyed, v_refs, v_completed, v_cur, w_cur, v_io>>
connVars   == <<n_pc, n_meshlets, n_range, n_out>>
meshVars   == <<l_pc, l_mesh, l_gpu>>
progVars   == <<p_total, p_phase, p_task, p_prog, p_log, p_result>>
moreVars   == <<meshVars, progVars>>
extVars    == <<aliasVars, teardownVars, frameVars, visVars, connVars, moreVars>>
vars       == <<coreVars, loadVars, importVars, graphVars, codecVars, renderVars, extVars>>

----------------------------------------------------------------------------
(* Bounds of the model *)

MaxFrames == 2      \* RenderCore::frame calls
MaxObjs   == 1      \* mesh loads
MaxRefs   == 2      \* strong references to one mesh
MaxLoads  == 3      \* AssetRuntime::load_asset calls
MaxTris   == 5      \* triangles of an imported mesh
MaxPasses == 3      \* passes declared in one frame
MaxTickets == 2     \* staging uploads
MaxMeshlets == 3    \* meshlets of a mesh written to the container

----------------------------------------------------------------------------
(* Small helpers *)

Range(s) == {s[i] : i \in DOMAIN s}

Max(a, b) == IF a >= b THEN a ELSE b

RECURSIVE Flatten(_)
Flatten(ss) == IF ss = <<>> THEN <<>> ELSE Head(ss) \o Flatten(Tail(ss))

RECURSIVE SumSeq(_)
SumSeq(s) == IF s = <<>> THEN 0 ELSE Head(s) + SumSeq(Tail(s))

----------------------------------------------------------------------------
(* GPU resources of a mesh load *)

Objs == 1..MaxObjs

\* The three resources a Mesh owns, in the order into_resources sends them.
MeshFields == <<"buffer", "raw_mesh", "acceleration_structure">>

\* Everything load_mesh_from_disk creates, in creation order.
LoadFields == <<"buffer", "raw_mesh", "acceleration_structure", "scratch">>

Resources == {<<o, k>> : o \in Objs, k \in Range(LoadFields)}

----------------------------------------------------------------------------
(* Frame-in-flight snapshots.  A snapshot is the number of the newest frame *)
(* it covers: "all GPU work submitted up to and including frame N".         *)

\* RenderGraph::snapshot(): the token of the work submitted so far.
graph_snapshot == submitted

\* The snapshot active now: it covers the newest frame begun, whose commands
\* may still reference a resource retired now.
ActiveSnapshot == frame

\* ExecutionSnapshot::is_complete: has the device finished the work of snap?
is_complete(snap) == snap <= completed

----------------------------------------------------------------------------
(* DeletionQueue (radiance_util::deletion) *)

\* delete(resource): enqueue, tagged with the active snapshot.
DeletionQueue_delete(q, r) == q \cup {[res |-> r, snap |-> ActiveSnapshot]}

RECURSIVE DeletionQueue_delete_all(_, _)
DeletionQueue_delete_all(q, rs) ==
    IF rs = <<>> THEN q
    ELSE DeletionQueue_delete_all(DeletionQueue_delete(q, Head(rs)), Tail(rs))

\* advance(device): the entries destroyed now, and the entries kept.
DeletionQueue_advance_destroyed(q) == {e.res : e \in {x \in q : is_complete(x.snap)}}

DeletionQueue_advance_kept(q) == {e \in q : ~is_complete(e.snap)}

\* Physical destruction of a set of resources.
Destroyed(dc, rs) == [r \in Resources |-> IF r \in rs THEN dc[r] + 1 ELSE dc[r]]

Queued(r) == \E e \in delete : e.res = r

TagOf(r) == (CHOOSE e \in delete : e.res = r).snap

----------------------------------------------------------------------------
(* RenderCore::frame (core/src/lib.rs:64-73) *)

\* Variant of FrameOk that forgets self.delete.advance(device).
FrameOk_no_advance ==
    /\ submitted = frame
    /\ frame < MaxFrames
    /\ last_frame_snapshot' = graph_snapshot
    /\ frame' = frame + 1
    /\ frame_result' = "ok"
    /\ UNCHANGED <<submitted, completed, delete, destroy_count, alloc, retire_log, nobjs,
                   mesh, chan>>
    /\ UNCHANGED <<loadVars, importVars, graphVars, codecVars, renderVars, extVars>>

\* staging.poll succeeded: snapshot, advance the deletion queue, store the
\* snapshot, begin the graph frame.  The previous CoreFrame borrows the
\* RenderCore mutably, so it has been run before the next call.
FrameOk ==
    /\ submitted = frame
    /\ frame < MaxFrames
    /\ LET snap == graph_snapshot
           gone == DeletionQueue_advance_destroyed(delete)
       IN  /\ delete' = DeletionQueue_advance_kept(delete)
           /\ destroy_count' = Destroyed(destroy_count, gone)
           /\ alloc' = alloc \ gone
           /\ last_frame_snapshot' = snap
    /\ frame' = frame + 1
    /\ frame_result' = "ok"
    /\ UNCHANGED <<submitted, completed, retire_log, nobjs, mesh, chan>>
    /\ UNCHANGED <<loadVars, importVars, graphVars, codecVars, renderVars, extVars>>

\* staging.poll failed: `?` returns the error before anything else happens.
FrameErr ==
    /\ submitted = frame
    /\ frame < MaxFrames
    /\ frame_result' = "err"
    /\ UNCHANGED <<frame, submitted, completed, last_frame_snapshot, delete, alloc,
                   destroy_count, retire_log, nobjs, mesh, chan>>
    /\ UNCHANGED <<loadVars, importVars, graphVars, codecVars, renderVars, extVars>>

\* The graph runs the frame and submits its commands.
Submit ==
    /\ submitted < frame
    /\ submitted' = frame
    /\ UNCHANGED <<frame, completed, last_frame_snapshot, frame_result, delete, alloc,
                   destroy_count, retire_log, nobjs, mesh, chan>>
    /\ UNCHANGED <<loadVars, importVars, graphVars, codecVars, renderVars, extVars>>

\* The device finishes the oldest submitted frame.
DeviceComplete ==
    /\ completed < submitted
    /\ completed' = completed + 1
    /\ UNCHANGED <<frame, submitted, last_frame_snapshot, frame_result, delete, alloc,
                   destroy_count, retire_log, nobjs, mesh, chan>>
    /\ UNCHANGED <<loadVars, importVars, graphVars, codecVars, renderVars, extVars>>

----------------------------------------------------------------------------
(* Mesh assets (asset-runtime/src/mesh.rs) *)

\* Where load_mesh_from_disk can fail, in program order, and "none".
\*   source      loader.sys.load(mesh)?                        (line 73)
\*   buffer      GpuBuffer::create(..)? of `buffer`             (lines 88-95)
\*   material    self.load_material(..)?                        (lines 98-106)
\*   raw_mesh    GpuBuffer::create(..)? of `raw_mesh`           (lines 109-117)
\*   acceleration_structure   AS::create(..)?                   (lines 200-208)
\*   scratch     GpuBuffer::create(..)? of `scratch`            (lines 210-217)
\*   execute_before   loader.ctx.execute_before(..)?            (lines 224-228)
FailPoints == {"none", "source", "buffer", "material", "raw_mesh",
               "acceleration_structure", "scratch", "execute_before"}

\* The resources already created when the load fails at f (all four at "none").
CreatedBefore(f) ==
    CASE f \in {"source", "buffer"}   -> <<>>
      [] f \in {"material", "raw_mesh"} -> <<"buffer">>
      [] f = "acceleration_structure"  -> <<"buffer", "raw_mesh">>
      [] f = "scratch"                 -> <<"buffer", "raw_mesh", "acceleration_structure">>
      [] OTHER                         -> LoadFields

ResOf(o, fields) == {<<o, k>> : k \in Range(fields)}

\* Variant of Mesh_into_resources that sends the buffer twice.
Mesh_into_resources_buffer_twice(o, queue) ==
    queue \o <<<<o, "buffer">>, <<o, "buffer">>, <<o, "raw_mesh">>,
               <<o, "acceleration_structure">>>>

\* Variant of Mesh_into_resources that forgets the acceleration structure.
Mesh_into_resources_no_as(o, queue) ==
    queue \o <<<<o, "buffer">>, <<o, "raw_mesh">>>>

\* Mesh::into_resources (mesh.rs:61-67): buffer, raw_mesh and the
\* acceleration structure are sent to the release channel, in this order.
Mesh_into_resources(o, queue) ==
    queue \o <<<<o, "buffer">>, <<o, "raw_mesh">>, <<o, "acceleration_structure">>>>

\* Variant of load_mesh_scratch that destroys the scratch buffer on the spot.
load_mesh_scratch_destroy(o) ==
    [delete        |-> delete,
     destroy_count |-> Destroyed(destroy_count, {<<o, "scratch">>}),
     alloc         |-> alloc \cup ResOf(o, MeshFields)]

\* Variant of load_mesh_scratch that queues the mesh's buffer instead.
load_mesh_scratch_queues_buffer(o) ==
    [delete        |-> DeletionQueue_delete(delete, <<o, "buffer">>),
     destroy_count |-> destroy_count,
     alloc         |-> alloc \cup ResOf(o, LoadFields)]

\* load_mesh_from_disk, the successful path: what it does with the scratch
\* buffer of the acceleration-structure build (mesh.rs:235, loader.queue.delete).
\* Returns the deletion queue, the destroy counts and the allocated set.
load_mesh_scratch(o) ==
    [delete        |-> DeletionQueue_delete(delete, <<o, "scratch">>),
     destroy_count |-> destroy_count,
     alloc         |-> alloc \cup ResOf(o, LoadFields)]

\* AssetRuntime::load_mesh_from_disk (mesh.rs:70-251).
LoadMeshFromDisk(f) ==
    /\ nobjs < MaxObjs
    /\ LET o == nobjs + 1 IN
       IF f = "none" THEN
           LET out == load_mesh_scratch(o) IN
           /\ delete' = out.delete
           /\ destroy_count' = out.destroy_count
           /\ alloc' = out.alloc
           \* the scratch buffer is given up under the snapshot active now
           /\ retire_log' = retire_log \cup {<<<<o, "scratch">>, ActiveSnapshot>>}
           /\ nobjs' = o
           \* RRef::new(Mesh {..}, loader.deleter.clone())
           /\ mesh' = [mesh EXCEPT ![o] = [state |-> "live", strong |-> 1]]
       ELSE
           \* `?` returns the error; what was created so far is dropped
           \* without being destroyed or queued.
           /\ CreatedBefore(f) # <<>>
           /\ alloc' = alloc \cup ResOf(o, CreatedBefore(f))
           /\ nobjs' = o
           /\ mesh' = [mesh EXCEPT ![o] = [state |-> "failed", strong |-> 0]]
           /\ UNCHANGED <<delete, destroy_count, retire_log>>
    /\ UNCHANGED <<frame, submitted, completed, last_frame_snapshot, frame_result, chan>>
    /\ UNCHANGED <<loadVars, importVars, graphVars, codecVars, renderVars, extVars>>

\* RRef::clone: one more strong reference.
Clone(o) ==
    /\ mesh[o].state = "live"
    /\ mesh[o].strong < MaxRefs
    /\ mesh' = [mesh EXCEPT ![o].strong = @ + 1]
    /\ UNCHANGED <<frame, submitted, completed, last_frame_snapshot, frame_result, delete,
                   alloc, destroy_count, retire_log, nobjs, chan>>
    /\ UNCHANGED <<loadVars, importVars, graphVars, codecVars, renderVars, extVars>>

\* Drop of an RRef: the last one hands the Mesh to into_resources with the
\* runtime's sender; nothing is destroyed here.
Drop(o) ==
    /\ mesh[o].state = "live"
    /\ IF mesh[o].strong = 1
       THEN /\ mesh' = [mesh EXCEPT ![o] = [state |-> "released", strong |-> 0]]
            /\ chan' = Mesh_into_resources(o, chan)
       ELSE /\ mesh' = [mesh EXCEPT ![o].strong = @ - 1]
            /\ chan' = chan
    /\ UNCHANGED <<frame, submitted, completed, last_frame_snapshot, frame_result, delete,
                   alloc, destroy_count, retire_log, nobjs>>
    /\ UNCHANGED <<loadVars, importVars, graphVars, codecVars, renderVars, extVars>>

\* AssetRuntime::tick(frame): drain the release channel into the deletion
\* queue, under the snapshot of the frame in which tick runs.
Tick ==
    /\ chan # <<>>
    /\ delete' = DeletionQueue_delete_all(delete, chan)
    /\ retire_log' = retire_log \cup {<<r, ActiveSnapshot>> : r \in Range(chan)}
    /\ chan' = <<>>
    /\ UNCHANGED <<frame, submitted, completed, last_frame_snapshot, frame_result,
                   alloc, destroy_count, nobjs, mesh>>
    /\ UNCHANGED <<loadVars, importVars, graphVars, codecVars, renderVars, extVars>>

----------------------------------------------------------------------------
(* Specification of the frame loop, the deletion queue and mesh references *)

CoreInit ==
    /\ frame = 0
    /\ submitted = 0
    /\ completed = 0
    /\ last_frame_snapshot = 0
    /\ frame_result = "none"
    /\ delete = {}
    /\ alloc = {}
    /\ destroy_count = [r \in Resources |-> 0]
    /\ retire_log = {}
    /\ nobjs = 0
    /\ mesh = [o \in Objs |-> [state |-> "none", strong |-> 0]]
    /\ chan = <<>>

LoadIdle ==
    /\ id_map = <<>>
    /\ assets = <<>>
    /\ reads = <<>>
    /\ allocs = <<>>
    /\ failures = <<>>
    /\ requests = <<>>
    /\ returned = <<>>
    /\ handles = <<>>
    /\ last_load = <<>>
    /\ load_calls = 0

ImportIdle ==
    /\ pc = "idle"
    /\ meshlets = <<>>
    /\ simplify = <<0, 0>>
    /\ lod = 0
    /\ groups = <<>>
    /\ par = <<>>
    /\ next_start = 0

GraphIdle ==
    /\ g_pc = "idle"
    /\ g_passes = <<>>
    /\ g_stream = <<>>
    /\ g_done = 0
    /\ g_tickets = 0
    /\ g_landed = {}

CodecIdle ==
    /\ c_pc = "idle"
    /\ c_in = <<>>
    /\ c_mesh = <<>>
    /\ c_bytes = <<>>
    /\ c_out = <<>>

RenderIdle ==
    /\ r_scene = "none"
    /\ r_loaded = {}
    /\ r_label = "none"
    /\ r_log = 0
    /\ r_loads = 0
    /\ r_frame_passes = <<>>
    /\ r_renders = 0
    /\ r_in = [system |-> FALSE, load |-> "none"]
    /\ r_panic = FALSE

AliasIdle ==
    /\ a_pc = "idle"
    /\ a_life = <<>>
    /\ a_block = <<>>

TeardownIdle == t_state = "idle"

FrameIdle ==
    /\ f_pc = "idle"
    /\ f_snap = 0
    /\ f_trace = <<>>

\* VisBuffer::new (visbuffer.rs:136-170): visibility: None
VisIdle ==
    /\ v_size = 0
    /\ v_buf = 0
    /\ v_nbufs = 0
    /\ v_destroyed = {}
    /\ v_refs = <<>>
    /\ v_completed = 0
    /\ v_cur = 0
    /\ w_cur = 0
    /\ v_io = <<>>

ConnIdle ==
    /\ n_pc = "idle"
    /\ n_meshlets = <<>>
    /\ n_range = <<0, 0>>
    /\ n_out = <<>>

MeshIdle == l_pc = "idle" /\ l_mesh = <<>> /\ l_gpu = <<>>

ProgIdle ==
    /\ p_total = <<>>
    /\ p_phase = 0
    /\ p_task = <<>>
    /\ p_prog = 0
    /\ p_log = <<>>
    /\ p_result = "idle"

MoreIdle == MeshIdle /\ ProgIdle

ExtIdle == AliasIdle /\ TeardownIdle /\ FrameIdle /\ VisIdle /\ ConnIdle /\ MoreIdle

Init == CoreInit /\ LoadIdle /\ ImportIdle /\ GraphIdle /\ CodecIdle /\ RenderIdle /\ ExtIdle

Next ==
    \/ FrameOk
    \/ FrameErr
    \/ Submit
    \/ DeviceComplete
    \/ \E f \in FailPoints : LoadMeshFromDisk(f)
    \/ \E o \in Objs : Clone(o)
    \/ \E o \in Objs : Drop(o)
    \/ Tick

Spec == Init /\ [][Next]_vars

\* The frame loop keeps running, the graph submits every frame it began, the
\* device finishes what was submitted, and tick is called while releases pend.
FairSpec ==
    /\ Spec
    /\ WF_vars(FrameOk)
    /\ WF_vars(Submit)
    /\ WF_vars(DeviceComplete)
    /\ WF_vars(Tick)

----------------------------------------------------------------------------
(* Claims about the deletion queue and mesh references *)

RetiredAt(r) == {e[2] : e \in {x \in retire_log : x[1] = r}}

\* C1: a resource is never physically destroyed in a state where the device
\* has not yet reported complete the snapshot that was active when the
\* resource was handed to the deletion queue.
C1_NoEarlyDestroy ==
    \A r \in Resources :
        destroy_count[r] > 0 =>
            /\ RetiredAt(r) # {}
            /\ \A s \in RetiredAt(r) : s <= completed

\* A resource retired while frame 1 or later was in flight has been destroyed,
\* while another one is still waiting for its snapshot.
C1_Witness ==
    /\ \E r \in Resources :
           destroy_count[r] = 1 /\ \E s \in RetiredAt(r) : s >= 1
    /\ \E e \in delete : e.snap > completed

AdvanceStep == frame' = frame + 1

\* C2: each advance destroys every entry whose tag the device has completed
\* and keeps every other entry; an entry whose tag is complete is destroyed by
\* the next frame's advance; no resource is destroyed twice.
C2_AdvanceDestroysCompleted ==
    /\ [][AdvanceStep =>
            \A e \in delete :
                IF e.snap <= completed
                THEN /\ e \notin delete'
                     /\ destroy_count'[e.res] = destroy_count[e.res] + 1
                     /\ e.res \notin alloc'
                ELSE /\ e \in delete'
                     /\ destroy_count'[e.res] = destroy_count[e.res]]_vars
    /\ [](\A r \in Resources : destroy_count[r] <= 1)
    /\ \A r \in Resources :
          ((\E e \in delete : e.res = r /\ e.snap <= completed) /\ frame < MaxFrames)
              ~> (destroy_count[r] = 1)

\* Two entries were queued under different snapshots; the older one is gone,
\* the newer one is kept.
C2_Witness ==
    /\ \E r \in Resources : destroy_count[r] = 1 /\ \E s \in RetiredAt(r) : s >= 1
    /\ \E e \in delete : e.snap > completed
    /\ frame >= 2

Released(o) == mesh[o].state = "released"

AllDestroyed(o) == \A k \in Range(MeshFields) : destroy_count[<<o, k>>] = 1

\* The frame bound is reached with every remaining resource of o queued
\* under a completed snapshot: only the next advance is missing.
ReadyAtHorizon(o) ==
    /\ frame = MaxFrames
    /\ \A k \in Range(MeshFields) :
           \/ destroy_count[<<o, k>>] = 1
           \/ \E e \in delete : e.res = <<o, k>> /\ e.snap <= completed

\* C5: after the last strong reference to a mesh is dropped, with tick and
\* advance being called and the device completing snapshots, its buffer,
\* raw_mesh and acceleration structure are all eventually destroyed (within
\* the frame bound: or are due at the very next advance).
C5_ReleasedEventuallyDestroyed ==
    \A o \in Objs : Released(o) ~> (AllDestroyed(o) \/ ReadyAtHorizon(o))

\* A released mesh whose three resources were forwarded by tick under the
\* snapshot of a real frame and then destroyed.
C5_Witness ==
    \E o \in Objs :
        /\ Released(o)
        /\ AllDestroyed(o)
        /\ \A k \in Range(MeshFields) : \E s \in RetiredAt(<<o, k>>) : s >= 1

----------------------------------------------------------------------------
(* The asset source: the assets an AssetSystem serves.  Scenes reference    *)
(* models, models reference meshes.                                         *)

UUIDs == {"s1", "s2", "m1", "m2", "x1", "x2"}

\* What load_asset is asked for: meshes are not loaded directly (lib.rs:113).
Loadable == {"s1", "s2", "m1", "m2"}

AssetKind(u) ==
    CASE u \in {"s1", "s2"} -> "Scene"
      [] u \in {"m1", "m2"} -> "Model"
      [] OTHER              -> "Mesh"

\* Model.meshes
ModelMeshes(u) == IF u = "m1" THEN <<"x1">> ELSE <<"x1", "x2">>

\* Scene.nodes, each node's model: s1 has three instances of two models.
SceneNodes(u) == IF u = "s1" THEN <<"m1", "m2", "m1">> ELSE <<"m2">>

\* Mesh.meshlets.len()
MeshMeshlets(x) == IF x = "x1" THEN 2 ELSE 1

----------------------------------------------------------------------------
(* AssetRuntime::load_inner (asset-runtime/src/lib.rs:102-261)              *)
(* The state threaded through the recursion is the record                   *)
(*   [map, assets, reads, allocs, failures, requests, returned];            *)
(* `fails` is the set of UUIDs for which AssetSystem::load returns Err      *)
(* during this call.  AssetId i is the index of assets[i + 1].              *)

Bump(f, u) == [f EXCEPT ![u] = @ + 1]

\* Variant of cache_hit that never finds the entry.
cache_hit_never(map, u) == FALSE

\* `if let Some(&x) = map.get(&asset)` (lib.rs:106)
cache_hit(map, u) == u \in DOMAIN map

\* Variant of map_insert that forgets the entry.
map_insert_forgotten(map, u, id) == map

\* map.insert(uuid, id) (lib.rs:258)
map_insert(map, u, id) == (u :> id) @@ map

\* Variant of load_failed that leaves an entry for the failed UUID behind.
load_failed_poisoned(st, u) ==
    [st EXCEPT !.failures = Bump(@, u),
               !.map = (u :> Len(st.assets)) @@ @]

\* Variant of load_failed that empties the cache when a load fails.
load_failed_clearing(st, u) ==
    [st EXCEPT !.failures = Bump(@, u), !.assets = <<>>, !.map = <<>>]

\* The `?` of lib.rs:111, 124 and 194: the error is returned, nothing is
\* pushed or inserted for u.
load_failed(st, u) == [st EXCEPT !.failures = Bump(@, u)]

\* lib.rs:256-260: push the asset, insert the id, return it.
register(st, u, asset) ==
    LET id == Len(st.assets) IN
    [st |-> [st EXCEPT !.assets = Append(@, asset),
                       !.map = map_insert(@, u, id),
                       !.returned[u] = @ \cup {id}],
     ok |-> TRUE,
     id |-> id]

\* lib.rs:115-124: the meshes of a model are read in order; collect stops at
\* the first Err.
RECURSIVE load_meshes(_, _, _)
load_meshes(st, xs, fails) ==
    IF xs = <<>> THEN [st |-> st, ok |-> TRUE]
    ELSE LET x   == Head(xs)
             st1 == [st EXCEPT !.reads = Bump(@, x)]
         IN  IF x \in fails THEN [st |-> st1, ok |-> FALSE]
             ELSE load_meshes(st1, Tail(xs), fails)

\* The mesh assets of the source: x1 has a meshlet of one triangle and one
\* of two, x2 a meshlet of one triangle.  Offsets are relative to the mesh,
\* indices to the vertex_offset of their meshlet (asset/src/mesh.rs:32-35, 51).
MeshAsset(x) ==
    IF x = "x1"
    THEN [vertices |-> 7,
          indices  |-> <<0, 1, 2, 0, 1, 2, 2, 3, 0>>,
          meshlets |-> <<[vertex_offset |-> 0, index_offset |-> 0, vert_count |-> 3, tri_count |-> 1],
                         [vertex_offset |-> 3, index_offset |-> 3, vert_count |-> 4, tri_count |-> 2]>>]
    ELSE [vertices |-> 3,
          indices  |-> <<0, 1, 2>>,
          meshlets |-> <<[vertex_offset |-> 0, index_offset |-> 0, vert_count |-> 3, tri_count |-> 1]>>]

\* lib.rs:140-150: the meshlets of a model.  vertex_offset is moved by the
\* vertices of the meshes before; index_offset is added to a local that
\* stays 0 (lib.rs:141), so it stays relative to the meshlet's own mesh.
RECURSIVE model_meshlets(_, _, _)
model_meshlets(meshes, vertex_offset, index_offset) ==
    IF meshes = <<>> THEN <<>>
    ELSE LET one == Head(meshes) IN
         [i \in DOMAIN one.meshlets |->
             [one.meshlets[i] EXCEPT !.vertex_offset = vertex_offset + @,
                                      !.index_offset = index_offset + @]]
         \o model_meshlets(Tail(meshes), vertex_offset + one.vertices, index_offset)

\* lib.rs:156-168: the indices of a model, meshlet after meshlet; `first` is
\* the number of meshlets written before.  An index is kept with the meshlet
\* it was written for.
RECURSIVE model_indices(_, _, _)
model_indices(meshes, vertex_offset, first) ==
    IF meshes = <<>> THEN <<>>
    ELSE LET one == Head(meshes) IN
         Flatten([i \in DOMAIN one.meshlets |->
                     [k \in 1..(3 * one.meshlets[i].tri_count) |->
                         [value   |-> one.indices[one.meshlets[i].index_offset + k]
                                      + vertex_offset + one.meshlets[i].vertex_offset,
                          meshlet |-> first + i - 1]]])
         \o model_indices(Tail(meshes), vertex_offset + one.vertices,
                          first + Len(one.meshlets))

\* lib.rs:125-168: the counts and the contents of the buffer of a model.
model_buffer(xs) ==
    LET meshes == [i \in DOMAIN xs |-> MeshAsset(xs[i])] IN
    [vertex_count |-> SumSeq([i \in DOMAIN meshes |-> meshes[i].vertices]),
     index_count  |-> SumSeq([i \in DOMAIN meshes |-> Len(meshes[i].indices)]),
     meshlets     |-> model_meshlets(meshes, 0, 0),
     indices      |-> model_indices(meshes, 0, 0)]

\* lib.rs:125: meshlet_count of a model
ModelMeshletCount(xs) == SumSeq([i \in DOMAIN xs |-> MeshMeshlets(xs[i])])

\* Variant of SceneMeshletCount that counts a shared model once.
SceneMeshletCount_distinct(as, ids) ==
    SumSeq([i \in DOMAIN ids |->
               IF \E j \in 1..(i - 1) : ids[j] = ids[i]
               THEN 0 ELSE as[ids[i] + 1].meshlet_count])

\* lib.rs:196-202: meshlet_count of a scene
SceneMeshletCount(as, ids) ==
    SumSeq([i \in DOMAIN ids |-> as[ids[i] + 1].meshlet_count])

\* Variant of meshlet_pointers that numbers the meshlets of a model from 1.
RECURSIVE meshlet_pointers_from_one(_, _, _)
meshlet_pointers_from_one(as, ids, instance) ==
    IF instance >= Len(ids) THEN <<>>
    ELSE [meshlet \in 1..as[ids[instance + 1] + 1].meshlet_count |->
             [instance |-> instance, meshlet |-> meshlet]]
         \o meshlet_pointers_from_one(as, ids, instance + 1)

\* lib.rs:208-223: the MeshletPointers written for the instances, in order:
\* for instance i (from 0) one pointer per meshlet of its model.
RECURSIVE meshlet_pointers(_, _, _)
meshlet_pointers(as, ids, instance) ==
    IF instance >= Len(ids) THEN <<>>
    ELSE [meshlet \in 1..as[ids[instance + 1] + 1].meshlet_count |->
             [instance |-> instance, meshlet |-> meshlet - 1]]
         \o meshlet_pointers(as, ids, instance + 1)

RECURSIVE load_inner(_, _, _)
RECURSIVE load_nodes(_, _, _, _)

\* lib.rs:190-194: the nodes of a scene are loaded in order through
\* load_inner; collect stops at the first Err.
load_nodes(st, nodes, fails, acc) ==
    IF nodes = <<>> THEN [st |-> st, ok |-> TRUE, ids |-> acc]
    ELSE LET r == load_inner(st, Head(nodes), fails)
         IN  IF ~r.ok THEN [st |-> r.st, ok |-> FALSE, ids |-> acc]
             ELSE load_nodes(r.st, Tail(nodes), fails, Append(acc, r.id))

load_inner(st0, u, fails) ==
    LET st == [st0 EXCEPT !.requests = Bump(@, u)] IN
    IF cache_hit(st.map, u)
    THEN [st |-> [st EXCEPT !.returned[u] = @ \cup {st.map[u]}],
          ok |-> TRUE,
          id |-> st.map[u]]
    ELSE
        \* system.load(asset)?
        LET st1 == [st EXCEPT !.reads = Bump(@, u)] IN
        IF u \in fails
        THEN [st |-> load_failed(st1, u), ok |-> FALSE, id |-> 0]
        ELSE IF AssetKind(u) = "Model"
        THEN LET m == load_meshes(st1, ModelMeshes(u), fails) IN
             IF ~m.ok
             THEN [st |-> load_failed(m.st, u), ok |-> FALSE, id |-> 0]
             ELSE \* Buffer::create(..).unwrap(), stage_buffer(..).unwrap()
                  register([m.st EXCEPT !.allocs = Bump(@, u)], u,
                           [kind           |-> "Model",
                            uuid           |-> u,
                            meshlet_count  |-> ModelMeshletCount(ModelMeshes(u)),
                            instance_count |-> 0,
                            pointers       |-> <<>>,
                            buffer         |-> model_buffer(ModelMeshes(u))])
        ELSE LET n == load_nodes(st1, SceneNodes(u), fails, <<>>) IN
             IF ~n.ok
             THEN [st |-> load_failed(n.st, u), ok |-> FALSE, id |-> 0]
             ELSE register([n.st EXCEPT !.allocs = Bump(@, u)], u,
                           [kind           |-> "Scene",
                            uuid           |-> u,
                            meshlet_count  |-> SceneMeshletCount(n.st.assets, n.ids),
                            instance_count |-> Len(n.ids),
                            pointers       |-> meshlet_pointers(n.st.assets, n.ids, 0),
                            buffer         |-> <<>>])

LoadState ==
    [map |-> id_map, assets |-> assets, reads |-> reads, allocs |-> allocs,
     failures |-> failures, requests |-> requests, returned |-> returned]

\* lib.rs:99: out.map(|x| (x, ticket)): Ok carries the id and the ticket,
\* Err carries the S::Error of the asset source.
load_result(ok) == IF ok THEN "Ok" ELSE "Err(source)"

\* mesh.rs:88-95, 109-117: GpuBuffer::create(..).map_err(StageError::Vulkan)?
\* in load_mesh_from_disk: the device error leaves the load as an Err of its
\* own variant.
create_map_err(created) ==
    IF created = "Ok" THEN "Ok" ELSE "Err(device)"

\* lib.rs:98: .unwrap() on the Result of Staging::stage.
stage_unwrap(staged) == IF staged = "Ok" THEN "Ok" ELSE "panic"

\* AssetRuntime::load_asset (lib.rs:87-100): load_inner runs inside the
\* staging closure; its result is handed to the caller with the ticket.
LoadAsset(u, fails) ==
    /\ load_calls < MaxLoads
    /\ ~last_load.panic
    /\ LET r == load_inner(LoadState, u, fails) IN
       /\ id_map' = r.st.map
       /\ assets' = r.st.assets
       /\ reads' = r.st.reads
       /\ allocs' = r.st.allocs
       /\ failures' = r.st.failures
       /\ requests' = r.st.requests
       /\ returned' = r.st.returned
       /\ handles' = IF r.ok THEN Bump(handles, u) ELSE handles
       /\ last_load' = [uuid |-> u, ok |-> r.ok, id |-> r.id,
                         device_failed |-> FALSE, panic |-> FALSE,
                         result |-> load_result(r.ok)]
    /\ load_calls' = load_calls + 1
    /\ UNCHANGED <<coreVars, importVars, graphVars, codecVars, renderVars, extVars>>

\* AssetRuntime::load_asset when the device fails in Staging::stage
\* (lib.rs:91-98).  The Result of stage is unwrapped, so the call panics;
\* its return type Result<_, S::Error> (lib.rs:90) has no value for a device
\* failure.  stage may fail before it runs the closure (closure_ran = FALSE:
\* the runtime is untouched) or when it submits the recorded copies
\* (closure_ran = TRUE: load_inner has already changed id_map and assets).
LoadAssetDeviceFailure(u, fails, closure_ran) ==
    /\ load_calls < MaxLoads
    /\ ~last_load.panic
    /\ LET r == IF closure_ran THEN load_inner(LoadState, u, fails)
                ELSE [st |-> LoadState, ok |-> FALSE, id |-> 0] IN
       /\ id_map' = r.st.map
       /\ assets' = r.st.assets
       /\ reads' = r.st.reads
       /\ allocs' = r.st.allocs
       /\ failures' = r.st.failures
       /\ requests' = r.st.requests
       /\ returned' = r.st.returned
       /\ last_load' = [uuid |-> u, ok |-> FALSE, id |-> 0,
                         device_failed |-> TRUE, panic |-> TRUE,
                         result |-> stage_unwrap("Err(Vulkan)")]
    /\ load_calls' = load_calls + 1
    /\ UNCHANGED handles
    /\ UNCHANGED <<coreVars, importVars, graphVars, codecVars, renderVars, extVars>>

\* The caller discards an AssetId it holds.  AssetId is a plain index
\* (lib.rs:67-68): nothing in the runtime changes.
DropHandle(u) ==
    /\ ~last_load.panic
    /\ handles[u] > 0
    /\ handles' = [handles EXCEPT ![u] = @ - 1]
    /\ UNCHANGED <<id_map, assets, reads, allocs, failures, requests, returned,
                   last_load, load_calls>>
    /\ UNCHANGED <<coreVars, importVars, graphVars, codecVars, renderVars, extVars>>

----------------------------------------------------------------------------
(* Specification of the asset cache *)

\* AssetRuntime::new (lib.rs:77-83)
LoadInit ==
    /\ id_map = <<>>
    /\ assets = <<>>
    /\ reads = [u \in UUIDs |-> 0]
    /\ allocs = [u \in UUIDs |-> 0]
    /\ failures = [u \in UUIDs |-> 0]
    /\ requests = [u \in UUIDs |-> 0]
    /\ returned = [u \in UUIDs |-> {}]
    /\ handles = [u \in UUIDs |-> 0]
    /\ last_load = [uuid |-> "", ok |-> FALSE, id |-> 0,
                    device_failed |-> FALSE, panic |-> FALSE, result |-> ""]
    /\ load_calls = 0

LoadNext ==
    \/ \E u \in Loadable, fails \in SUBSET UUIDs : LoadAsset(u, fails)
    \/ \E u \in Loadable : DropHandle(u)

LoadSpecInit == CoreInit /\ LoadInit /\ ImportIdle /\ GraphIdle /\ CodecIdle /\ RenderIdle /\ ExtIdle

LoadSpec == LoadSpecInit /\ [][LoadNext]_vars

\* The asset cache on a device that can fail.
DeviceNext ==
    \/ \E u \in Loadable, fails \in SUBSET UUIDs : LoadAsset(u, fails)
    \/ \E u \in Loadable : DropHandle(u)
    \/ \E u \in Loadable, fails \in SUBSET UUIDs, closure_ran \in BOOLEAN :
           LoadAssetDeviceFailure(u, fails, closure_ran)

DeviceSpec == LoadSpecInit /\ [][DeviceNext]_vars

----------------------------------------------------------------------------
(* Claims about the asset cache *)

\* This step is a load_asset call for u.
LoadStepOf(u) == load_calls' = load_calls + 1 /\ last_load'.uuid = u

\* C3: when every load request for a UUID succeeded (top-level requests and
\* re-entrant ones from inside a scene load), the N requests caused exactly
\* one asset-source read and one GPU allocation for it, and all of them
\* returned the same AssetId.
C3_LoadsCoalesce ==
    \A u \in Loadable :
        (requests[u] >= 1 /\ failures[u] = 0) =>
            /\ reads[u] = 1
            /\ allocs[u] = 1
            /\ Cardinality(returned[u]) = 1

\* Three or more requests for one model, one of them re-entrant from a scene
\* load, none failed.
C3_Witness ==
    \E u \in {"m1", "m2"} :
        /\ requests[u] >= 3
        /\ failures[u] = 0
        /\ reads[u] = 1
        /\ \E sc \in {"s1", "s2"} : sc \in DOMAIN id_map

LiveObjects(u) == {i \in DOMAIN assets : assets[i].uuid = u}

\* C4: every UUID has at most one GPU-resident object in the runtime.
C4_OneObjectPerUuid ==
    \A u \in UUIDs : Cardinality(LiveObjects(u)) <= 1

\* A registered asset was loaded at top level at least twice and every
\* handle the callers got for it was dropped.
C4_Witness ==
    \E u \in Loadable :
        /\ u \in DOMAIN id_map
        /\ last_load.uuid = u
        /\ last_load.ok
        /\ load_calls >= 2
        /\ requests[u] >= 2
        /\ handles[u] = 0
        /\ Len(assets) >= 2

\* C6, as claimed: a load of u issued after every handle to u's object was
\* dropped performs a full reload (new source read, new GPU allocation) and
\* does not return the old object.
C6_ReloadAfterLastDrop ==
    [][\A u \in Loadable :
          (LoadStepOf(u) /\ u \in DOMAIN id_map /\ handles[u] = 0 /\ last_load'.ok) =>
              /\ reads'[u] = reads[u] + 1
              /\ allocs'[u] = allocs[u] + 1
              /\ last_load'.id # id_map[u]]_vars

\* C7: a failed load request for u leaves u unregistered, and a load of a
\* UUID that failed before and is not registered calls the asset source again.
C7_FailedLoadNotCached ==
    [][\A u \in Loadable :
          /\ (failures'[u] > failures[u]) => (u \notin DOMAIN id_map')
          /\ (LoadStepOf(u) /\ failures[u] > 0 /\ u \notin DOMAIN id_map) =>
                 reads'[u] = reads[u] + 1]_vars

\* A scene failed in a nested model load, was retried, and the retry read the
\* source again and succeeded.
C7_Witness ==
    /\ failures["s1"] >= 1
    /\ failures["m2"] >= 1
    /\ reads["s1"] >= 2
    /\ "s1" \in DOMAIN id_map

----------------------------------------------------------------------------
(* Importer::mesh (asset/src/import/mesh/mod.rs).  A FullMesh is abstracted  *)
(* to its triangle count, a sphere to its radius; radii are naturals and     *)
(* f32::INFINITY is a number above every finite radius.                      *)

F32_INFINITY == 1000000

\* meshopt::build_meshlets(.., 64, 124, 0.5): at most this many triangles
MaxMeshletTris == 124

\* generate_groups: range.len().div_ceil(4)
GroupSize == 4

\* The meshlet with Rust index mid.
M(mid) == meshlets[mid + 1]

\* The ways meshopt::build_meshlets may cut a mesh of t triangles into
\* meshlets of 1..124 triangles each, listed largest first (the order of the
\* meshlets of one call is immaterial: every grouping of them is explored).
RECURSIVE ClusteringsUpTo(_, _)
ClusteringsUpTo(t, cap) ==
    IF t = 0 THEN {<<>>}
    ELSE UNION {{<<k>> \o c : c \in ClusteringsUpTo(t - k, k)} :
                   k \in 1..(IF t < cap THEN t ELSE cap)}

Clusterings(t) == ClusteringsUpTo(t, MaxMeshletTris)

\* generate_meshlets (mod.rs:144-187): one MappedMeshlet per cluster.  Leaves
\* (group_error = None) get radius 0; parent_group_error starts infinite.
\* `from` records the group the meshlets were produced from.
generate_meshlets(clusters, group_error, from) ==
    [i \in DOMAIN clusters |->
        [tri_count          |-> clusters[i],
         group_error        |-> group_error,
         parent_group_error |-> F32_INFINITY,
         from               |-> from]]

\* Variant of accumulate_error that forgets the inputs' own errors.
accumulate_error_only_new(ms, group, error) == error

\* Variant of accumulate_error that takes the smallest input error.
accumulate_error_min(ms, group, error) ==
    error + (CHOOSE x \in {ms[mid + 1].group_error : mid \in Range(group)} :
                \A y \in {ms[mid + 1].group_error : mid \in Range(group)} : x <= y)

\* simplify_group (mod.rs:204-208): error.radius += max of the inputs'
\* group_error radii.
accumulate_error(ms, group, error) ==
    error + (CHOOSE x \in {ms[mid + 1].group_error : mid \in Range(group)} :
                \A y \in {ms[mid + 1].group_error : mid \in Range(group)} : x >= y)

GroupTris(ms, group) == SumSeq([i \in DOMAIN group |-> ms[group[i] + 1].tri_count])

\* The error radii a simplification step may report.
ErrorRadii == {0, 1}

\* simplify::simplify_mesh: None when the merged mesh cannot be reduced,
\* otherwise a mesh of fewer triangles and the error of the step.
simplify_mesh(t) ==
    {[tag |-> "none", tris |-> 0, error |-> 0]}
    \cup {[tag |-> "some", tris |-> k, error |-> e] : k \in 0..(t - 1), e \in ErrorRadii}

\* The outcomes of one parallel task (mod.rs:85-89): simplify_group, then
\* generate_meshlets on the simplified mesh.  `step` keeps the error radius
\* simplify_mesh reported, `error` is the group_error of simplify_group.
GroupTask(ms, group) ==
    {[tag |-> "none", error |-> 0, step |-> 0, clusters |-> <<>>]}
    \cup UNION {{[tag      |-> "some",
                  error    |-> accumulate_error(ms, group, r.error),
                  step     |-> r.error,
                  clusters |-> c] : c \in Clusterings(r.tris)} :
                r \in {x \in simplify_mesh(GroupTris(ms, group)) : x.tag = "some"}}

\* Variant of GroupCount that rounds down.
GroupCount_floor(n) == n \div GroupSize

\* generate_groups (mod.rs:233-245): group_of assigns each meshlet of the
\* range a partition; groups[g] lists its meshlets in increasing order.
GroupCount(n) == (n + GroupSize - 1) \div GroupSize

RECURSIVE SeqOfSet(_)
SeqOfSet(S) ==
    IF S = {} THEN <<>>
    ELSE LET m == CHOOSE x \in S : \A y \in S : x <= y
         IN  <<m>> \o SeqOfSet(S \ {m})

generate_groups(range, group_of) ==
    [g \in 1..GroupCount(range[2] - range[1]) |->
        SeqOfSet({i + range[1] : i \in {j \in 0..(range[2] - range[1] - 1) :
                                          group_of[j + 1] = g}})]

\* Variant of next_simplify that keeps the old start of the range.
next_simplify_keep_start(old, start, len) == <<old[1], len>>

\* Variant of RangeLen that counts one meshlet too many.
RangeLen_off_by_one(r) == r[2] - r[1] + 1

\* simplify = next_start..meshlets.meshlets.len() (mod.rs:98)
next_simplify(old, start, len) == <<start, len>>

\* Variant of merge_one that gives the inputs the error of the step alone.
merge_one_step_error(ms, group, res) ==
    IF res.tag # "some" THEN ms
    ELSE [i \in DOMAIN ms |->
            IF (i - 1) \in Range(group)
            THEN [ms[i] EXCEPT !.parent_group_error = res.step]
            ELSE ms[i]]
         \o generate_meshlets(res.clusters, res.error, Range(group))

\* mod.rs:91-96, for one task result: the group's meshlets get the group
\* error as parent_group_error, the new meshlets are appended.
merge_one(ms, group, res) ==
    IF res.tag # "some" THEN ms
    ELSE [i \in DOMAIN ms |->
            IF (i - 1) \in Range(group)
            THEN [ms[i] EXCEPT !.parent_group_error = res.error]
            ELSE ms[i]]
         \o generate_meshlets(res.clusters, res.error, Range(group))

RECURSIVE merge_all(_, _, _, _)
merge_all(ms, gs, results, g) ==
    IF g > Len(gs) THEN ms
    ELSE merge_all(merge_one(ms, gs[g], results[g]), gs, results, g + 1)

RangeLen(r) == r[2] - r[1]

\* mod.rs:70-74: conv_to_mesh, the leaf meshlets, the first range.
ImportStart(c) ==
    /\ pc = "start"
    /\ meshlets' = generate_meshlets(c, 0, {})
    /\ simplify' = <<0, Len(c)>>
    /\ lod' = 1
    /\ pc' = "loop"
    /\ UNCHANGED <<groups, par, next_start>>
    /\ UNCHANGED <<coreVars, loadVars, graphVars, codecVars, renderVars, extVars>>

\* Variant of GenerateGroups without .filter(|x| x.len() > 1): only empty
\* groups are left out.
GenerateGroups_no_filter(group_of) ==
    /\ pc = "loop"
    /\ RangeLen(simplify) > 1
    /\ next_start' = Len(meshlets)
    /\ groups' = generate_groups(simplify, group_of)
    /\ par' = [g \in DOMAIN groups' |->
                 [tag      |-> IF Len(groups'[g]) > 0 THEN "pending" ELSE "filtered",
                  error    |-> 0,
                  step     |-> 0,
                  clusters |-> <<>>]]
    /\ pc' = "par"
    /\ UNCHANGED <<meshlets, simplify, lod>>
    /\ UNCHANGED <<coreVars, loadVars, graphVars, codecVars, renderVars, extVars>>

\* mod.rs:75-84: the loop is entered, the level is grouped, groups of one
\* meshlet or none are filtered out.
GenerateGroups(group_of) ==
    /\ pc = "loop"
    /\ RangeLen(simplify) > 1
    /\ next_start' = Len(meshlets)
    /\ groups' = generate_groups(simplify, group_of)
    /\ par' = [g \in DOMAIN groups' |->
                 [tag      |-> IF Len(groups'[g]) > 1 THEN "pending" ELSE "filtered",
                  error    |-> 0,
                  step     |-> 0,
                  clusters |-> <<>>]]
    /\ pc' = "par"
    /\ UNCHANGED <<meshlets, simplify, lod>>
    /\ UNCHANGED <<coreVars, loadVars, graphVars, codecVars, renderVars, extVars>>

\* Variant of SimplifyGroup whose task merges its result into the shared
\* meshlets itself, as it completes.
SimplifyGroup_merging(g, res) ==
    /\ pc = "par"
    /\ g \in DOMAIN par
    /\ par[g].tag = "pending"
    /\ res \in GroupTask(meshlets, groups[g])
    /\ meshlets' = merge_one(meshlets, groups[g], res)
    /\ par' = [par EXCEPT ![g] = [res EXCEPT !.tag = "none"]]
    /\ UNCHANGED <<pc, simplify, lod, groups, next_start>>
    /\ UNCHANGED <<coreVars, loadVars, graphVars, codecVars, renderVars, extVars>>

\* mod.rs:85-89: one task of the parallel iterator; it reads meshlets only.
SimplifyGroup(g, res) ==
    /\ pc = "par"
    /\ g \in DOMAIN par
    /\ par[g].tag = "pending"
    /\ res \in GroupTask(meshlets, groups[g])
    /\ par' = [par EXCEPT ![g] = res]
    /\ UNCHANGED <<pc, meshlets, simplify, lod, groups, next_start>>
    /\ UNCHANGED <<coreVars, loadVars, graphVars, codecVars, renderVars, extVars>>

\* mod.rs:91-99: the collected results are merged in group order.
Merge ==
    /\ pc = "par"
    /\ \A g \in DOMAIN par : par[g].tag # "pending"
    /\ meshlets' = merge_all(meshlets, groups, par, 1)
    /\ simplify' = next_simplify(simplify, next_start, Len(meshlets'))
    /\ lod' = lod + 1
    /\ pc' = "loop"
    /\ UNCHANGED <<groups, par, next_start>>
    /\ UNCHANGED <<coreVars, loadVars, graphVars, codecVars, renderVars, extVars>>

\* mod.rs:75, 102: the range holds at most one meshlet; the loop is left.
ImportFinish ==
    /\ pc = "loop"
    /\ RangeLen(simplify) <= 1
    /\ pc' = "done"
    /\ UNCHANGED <<meshlets, simplify, lod, groups, par, next_start>>
    /\ UNCHANGED <<coreVars, loadVars, graphVars, codecVars, renderVars, extVars>>

----------------------------------------------------------------------------
(* Specification of the importer *)

ImportInit ==
    /\ pc = "start"
    /\ meshlets = <<>>
    /\ simplify = <<0, 0>>
    /\ lod = 0
    /\ groups = <<>>
    /\ par = <<>>
    /\ next_start = 0

ImportNext ==
    \/ \E t \in 0..MaxTris : \E c \in Clusterings(t) : ImportStart(c)
    \/ \E group_of \in [1..RangeLen(simplify) -> 1..GroupCount(RangeLen(simplify))] :
           GenerateGroups(group_of)
    \/ \E g \in 1..GroupCount(MaxTris) :
           \E res \in (IF pc = "par" /\ g \in DOMAIN par
                       THEN GroupTask(meshlets, groups[g]) ELSE {}) :
               SimplifyGroup(g, res)
    \/ Merge
    \/ ImportFinish

ImportSpecInit == CoreInit /\ LoadIdle /\ ImportInit /\ GraphIdle /\ CodecIdle /\ RenderIdle /\ ExtIdle

ImportSpec == ImportSpecInit /\ [][ImportNext]_vars

\* Importer::mesh is a sequential program (its parallel tasks run on a
\* worker pool that completes them): it keeps taking steps.
ImportFairSpec == ImportSpec /\ WF_vars(ImportNext)

----------------------------------------------------------------------------
(* Claims about the importer *)

\* C8: every meshlet has group_error.radius <= parent_group_error.radius; a
\* meshlet never merged into a coarser group keeps the infinite radius.
C8_GroupErrorBelowParent ==
    (pc \in {"loop", "done"}) =>
        \A i \in DOMAIN meshlets :
            meshlets[i].group_error <= meshlets[i].parent_group_error

\* The import is finished after two simplified levels: a level-2 meshlet with
\* a non-zero error was merged (finite parent error), another meshlet was not.
C8_Witness ==
    /\ pc = "done"
    /\ lod >= 3
    /\ \E i \in DOMAIN meshlets :
           /\ meshlets[i].group_error >= 1
           /\ meshlets[i].parent_group_error < F32_INFINITY
    /\ \E i \in DOMAIN meshlets : meshlets[i].parent_group_error = F32_INFINITY

\* C9: a meshlet produced by simplifying a group has a group_error radius at
\* least that of every meshlet of the group, so radii never decrease from a
\* meshlet to the coarser meshlets produced from it.
C9_ErrorMonotoneAlongDag ==
    \A i \in DOMAIN meshlets :
        \A mid \in meshlets[i].from :
            M(mid).group_error <= meshlets[i].group_error

\* A coarser meshlet was produced from a group whose meshlets came from two
\* different groups of the level before, with different errors.
C9_Witness ==
    \E i \in DOMAIN meshlets :
        /\ \E a \in meshlets[i].from, b \in meshlets[i].from :
               M(a).group_error < M(b).group_error
        /\ \A a \in meshlets[i].from : M(a).group_error <= meshlets[i].group_error

\* Triangles of the active range.
ActiveTris ==
    SumSeq([k \in 1..RangeLen(simplify) |-> M(simplify[1] + k - 1).tri_count])

\* Triangles of the imported mesh (the leaf meshlets).
LeafTris ==
    SumSeq([i \in DOMAIN meshlets |->
               IF meshlets[i].from = {} THEN meshlets[i].tri_count ELSE 0])

\* C10: the LOD loop terminates: every level leaves strictly fewer triangles
\* in the active range than it found (a group that cannot be reduced is
\* dropped and contributes nothing), so the number of levels never exceeds
\* the triangle count of the imported mesh.
C10_LodLoopTerminates ==
    /\ [][(pc = "par" /\ pc' = "loop") => ActiveTris' < ActiveTris]_vars
    /\ [](pc # "start" => lod <= Max(LeafTris, 1))

\* The same, as a liveness property of ImportFairSpec.
ImportEventuallyDone == <>(pc = "done")

\* A level whose meshlet count did not decrease, in an import that finished.
C10_Witness ==
    /\ pc = "done"
    /\ lod >= 3
    /\ \E i \in DOMAIN meshlets, j \in DOMAIN meshlets :
           /\ i # j
           /\ meshlets[i].from # {}
           /\ meshlets[i].from = meshlets[j].from
           /\ Cardinality(meshlets[i].from) = 2

\* Number of leaf meshlets (the result of clustering the input mesh).
LeafCount == Cardinality({i \in DOMAIN meshlets : meshlets[i].from = {}})

\* C11: when leaf clustering yields at most one meshlet, no simplification
\* group is formed and no LOD level runs: the lod counter stays at 1 and the
\* meshlet list holds exactly the leaf meshlets, up to and including the end.
C11_SingleMeshletNoLevels ==
    (pc \in {"loop", "par", "done"} /\ LeafCount <= 1) =>
        /\ pc # "par"
        /\ lod = 1
        /\ groups = <<>>
        /\ Len(meshlets) = LeafCount
        /\ simplify = <<0, LeafCount>>

\* The import of a 2-triangle mesh clustered into one meshlet has finished.
C11_Witness ==
    /\ pc = "done"
    /\ Len(meshlets) = 1
    /\ meshlets[1].tri_count = 2
    /\ lod = 1

----------------------------------------------------------------------------
(* Claims about scene loading *)

\* The meshlets of all instances of scene u, by the asset source: the
\* meshlet_count of each node's model, a shared model once per instance.
ExpectedPointers(u) ==
    SumSeq([i \in DOMAIN SceneNodes(u) |->
               ModelMeshletCount(ModelMeshes(SceneNodes(u)[i]))])

\* C12: a successful load of a scene that is not cached yields instance_count
\* = number of nodes, adds one cache entry per distinct model that was not
\* cached (read from the source once in this load; cached models are not
\* read) plus the scene's own, and sizes and fills the meshlet-pointer buffer
\* with the sum over the nodes of their model's meshlet_count.
C12_SceneLoadCounts ==
    [][\A u \in {"s1", "s2"} :
          (LoadStepOf(u) /\ last_load'.ok /\ u \notin DOMAIN id_map) =>
              LET nodes == SceneNodes(u)
                  fresh == Range(nodes) \ DOMAIN id_map
                  sc    == assets'[last_load'.id + 1]
              IN  /\ sc.kind = "Scene"
                  /\ sc.instance_count = Len(nodes)
                  /\ Len(assets') = Len(assets) + Cardinality(fresh) + 1
                  /\ DOMAIN id_map' = DOMAIN id_map \cup fresh \cup {u}
                  /\ \A m \in Range(nodes) :
                         reads'[m] = reads[m] + (IF m \in fresh THEN 1 ELSE 0)
                  /\ sc.meshlet_count = ExpectedPointers(u)
                  /\ Len(sc.pointers) = ExpectedPointers(u)]_vars

\* The scene with 3 instances of 2 distinct models was loaded into an empty
\* cache: 3 instances, 2 model entries, 2 + 3 + 2 meshlet pointers.
C12_Witness ==
    /\ load_calls = 1
    /\ last_load.uuid = "s1" /\ last_load.ok /\ last_load.id = 2
    /\ Len(assets) = 3
    /\ assets[3].instance_count = 3
    /\ Len(assets[3].pointers) = 7
    /\ reads["m1"] = 1 /\ reads["m2"] = 1

----------------------------------------------------------------------------
(* The render graph of one frame.  Passes declare their accesses while the  *)
(* frame is built (as VisBuffer::init_visibility and VisBuffer::run do);    *)
(* running the frame resolves them into one command stream of barriers and  *)
(* pass executions, which the device executes in order.                     *)

\* The buffers a pass of the frame may declare.
GRes == {"workgroups", "visibility"}

\* What a pass declares for a resource: nothing (or `usages: &[]`), a read
\* (ShaderStorageRead, IndirectBuffer), a write (TransferWrite,
\* ShaderStorageWrite) or both in one pass.
AccessKinds == {"none", "read", "write", "readwrite"}

Reads(k) == k \in {"read", "readwrite"}

Writes(k) == k \in {"write", "readwrite"}

Accesses(pass, r) == pass.acc[r] # "none"

NoAccess == [r \in GRes |-> "none"]

\* Variant of hazard that only orders writes against writes.
hazard_writes_only(prev, next) == Writes(prev) /\ Writes(next)

\* Two accesses to one resource need synchronization unless both only read.
hazard(prev, next) == Writes(prev) \/ Writes(next)

\* The passes before position j whose access to r the pass at j must be
\* synchronized with: the accesses to the current version of r (no write to
\* r lies between) that conflict with the access at j.
Producers(ps, j, r) ==
    {i \in 1..(j - 1) :
        /\ Accesses(ps[i], r)
        /\ \A k \in (i + 1)..(j - 1) : ~Writes(ps[k].acc[r])
        /\ hazard(ps[i].acc[r], ps[j].acc[r])}

\* Variant of pass_barriers that also orders every pass after the one
\* declared before it.
pass_barriers_serial(ps, j) ==
    {[res |-> r, src |-> ps[i].name, dst |-> ps[j].name] :
        r \in {x \in GRes : Accesses(ps[j], x)}, i \in 1..(j - 1)}

\* The barriers recorded in front of the pass at position j: one per
\* resource it accesses and producer of that resource's current version.
pass_barriers(ps, j) ==
    UNION {{[res |-> r, src |-> ps[i].name, dst |-> ps[j].name] :
               i \in Producers(ps, j, r)} :
           r \in {x \in GRes : Accesses(ps[j], x)}}

\* Resolution of the frame: the passes in declaration order, each preceded
\* by its barriers (one barrier command, left out when it would be empty).
RECURSIVE synthesize(_, _)
synthesize(ps, j) ==
    IF j > Len(ps) THEN <<>>
    ELSE (IF pass_barriers(ps, j) = {} THEN <<>>
          ELSE <<[op |-> "barrier", set |-> pass_barriers(ps, j), pass |-> 0]>>)
         \o <<[op |-> "exec", set |-> {}, pass |-> ps[j].name]>>
         \o synthesize(ps, j + 1)

\* Every barrier of the frame.
BarrierSet(ps) == UNION {pass_barriers(ps, j) : j \in DOMAIN ps}

\* frame.pass(name); pass.resource(..) / pass.reference(..) for each
\* resource; pass.build(closure).
DeclarePass(acc) ==
    /\ g_pc = "build"
    /\ Len(g_passes) < MaxPasses
    /\ g_passes' = Append(g_passes, [name |-> Len(g_passes) + 1, label |-> "pass",
                                     acc |-> acc, wait |-> 0])
    /\ UNCHANGED <<g_pc, g_stream, g_done, g_tickets, g_landed>>
    /\ UNCHANGED <<coreVars, loadVars, importVars, codecVars, renderVars, extVars>>

\* The frame is run: the declarations are resolved and submitted.
RunFrame ==
    /\ g_pc = "build"
    /\ g_stream' = synthesize(g_passes, 1)
    /\ g_done' = 0
    /\ g_pc' = "exec"
    /\ UNCHANGED <<g_passes, g_tickets, g_landed>>
    /\ UNCHANGED <<coreVars, loadVars, importVars, codecVars, renderVars, extVars>>

\* The pass with the given name.
PassNamed(n) == g_passes[n]

\* Variant of ticket_signalled that does not look at the upload.
ticket_signalled_always(wait, landed) == TRUE

\* The wait condition of ticket.as_info(): no ticket, or its upload completed.
ticket_signalled(wait, landed) == wait = 0 \/ wait \in landed

\* The device executes the next command of the stream.  A pass that waits on
\* a staging ticket is held back until that upload has completed.
ExecCmd ==
    /\ g_pc = "exec"
    /\ g_done < Len(g_stream)
    /\ LET c == g_stream[g_done + 1] IN
       c.op = "exec" => ticket_signalled(PassNamed(c.pass).wait, g_landed)
    /\ g_done' = g_done + 1
    /\ UNCHANGED <<g_pc, g_passes, g_stream, g_tickets, g_landed>>
    /\ UNCHANGED <<coreVars, loadVars, importVars, codecVars, renderVars, extVars>>

\* The device has executed the whole stream.
FrameDone ==
    /\ g_pc = "exec"
    /\ g_done = Len(g_stream)
    /\ g_pc' = "done"
    /\ UNCHANGED <<g_passes, g_stream, g_done, g_tickets, g_landed>>
    /\ UNCHANGED <<coreVars, loadVars, importVars, codecVars, renderVars, extVars>>

\* Staging::stage submits an upload and returns its ticket; the pass waits
\* on it.  who = "stage": PassBuilderExt::stage (core lib.rs:104-111), the
\* pass being built stages and waits; who = "wait for staging": the
\* editor's pass (render/mod.rs:104-108) waits on the ticket of load_scene.
StageAndWait(who) ==
    /\ g_pc = "build"
    /\ Len(g_passes) < MaxPasses
    /\ g_tickets < MaxTickets
    /\ g_tickets' = g_tickets + 1
    /\ g_passes' = Append(g_passes, [name |-> Len(g_passes) + 1, label |-> who,
                                     acc |-> NoAccess, wait |-> g_tickets'])
    /\ UNCHANGED <<g_pc, g_stream, g_done, g_landed>>
    /\ UNCHANGED <<coreVars, loadVars, importVars, codecVars, renderVars, extVars>>

\* The device completes the upload of ticket t: its bytes have landed.
UploadLands(t) ==
    /\ t \in (1..g_tickets) \ g_landed
    /\ g_landed' = g_landed \cup {t}
    /\ UNCHANGED <<g_pc, g_passes, g_stream, g_done, g_tickets>>
    /\ UNCHANGED <<coreVars, loadVars, importVars, codecVars, renderVars, extVars>>

GraphInit ==
    /\ g_pc = "build"
    /\ g_passes = <<>>
    /\ g_stream = <<>>
    /\ g_done = 0
    /\ g_tickets = 0
    /\ g_landed = {}

GraphNext ==
    \/ \E acc \in [GRes -> AccessKinds] : DeclarePass(acc)
    \/ RunFrame
    \/ ExecCmd
    \/ FrameDone

GraphSpecInit == CoreInit /\ LoadIdle /\ ImportIdle /\ GraphInit /\ CodecIdle /\ RenderIdle /\ ExtIdle

GraphSpec == GraphSpecInit /\ [][GraphNext]_vars

\* A frame whose passes wait on staging uploads.
StageNext ==
    \/ \E who \in {"stage", "wait for staging"} : StageAndWait(who)
    \/ DeclarePass(NoAccess)
    \/ \E t \in 1..MaxTickets : UploadLands(t)
    \/ RunFrame
    \/ ExecCmd
    \/ FrameDone

StageSpec == GraphSpecInit /\ [][StageNext]_vars

----------------------------------------------------------------------------
(* Claims about the render graph *)

\* Position in the command stream of the execution of the pass named n.
ExecPos(n) == CHOOSE p \in DOMAIN g_stream : g_stream[p].op = "exec" /\ g_stream[p].pass = n

\* The device has executed the pass named n.
Executed(n) == g_done >= ExecPos(n)

\* C13: when pass A declares a write to R and a pass B declared after A
\* declares a read of R, the command stream executes A before B and holds,
\* between the two, a barrier on R in front of B; B is never executed while
\* A is not.
C13_BarrierBetweenWriteAndRead ==
    (g_pc \in {"exec", "done"}) =>
        \A a \in DOMAIN g_passes, b \in DOMAIN g_passes, r \in GRes :
            (a < b /\ Writes(g_passes[a].acc[r]) /\ Reads(g_passes[b].acc[r])) =>
                /\ ExecPos(a) < ExecPos(b)
                /\ \E p \in (ExecPos(a) + 1)..(ExecPos(b) - 1) :
                       /\ g_stream[p].op = "barrier"
                       /\ \E x \in g_stream[p].set : x.res = r /\ x.dst = b
                /\ Executed(b) => Executed(a)

\* The frame of VisBuffer::run was executed: "reset workgroups" writes the
\* workgroup buffer, "visbuffer" reads and writes it and writes visibility.
C13_Witness ==
    /\ g_pc = "done"
    /\ Len(g_passes) >= 2
    /\ g_passes[1].acc = [workgroups |-> "write", visibility |-> "none"]
    /\ g_passes[2].acc = [workgroups |-> "readwrite", visibility |-> "write"]
    /\ [res |-> "workgroups", src |-> 1, dst |-> 2] \in BarrierSet(g_passes)
    /\ Executed(2)

\* The declaration list with the passes at positions i and j exchanged (each
\* pass keeps its name and its declared accesses).
Swap(ps, i, j) ==
    [k \in DOMAIN ps |-> IF k = i THEN ps[j] ELSE IF k = j THEN ps[i] ELSE ps[k]]

\* Two passes share no resource.
Independent(p, q) == \A r \in GRes : ~(Accesses(p, r) /\ Accesses(q, r))

\* C14, as claimed: exchanging the declarations of any two passes that share
\* no resource leaves the frame's set of barriers unchanged.
C14_SwapAnyIndependentPair ==
    \A i \in DOMAIN g_passes, j \in DOMAIN g_passes :
        (i < j /\ Independent(g_passes[i], g_passes[j])) =>
            BarrierSet(Swap(g_passes, i, j)) = BarrierSet(g_passes)

\* C14, amended: exchanging the declarations of two passes that share no
\* resource with each other, nor with any pass declared between them (in
\* particular two passes declared one directly after the other), leaves the
\* frame's set of barriers unchanged.
C14_SwapIndependentNeighbours ==
    \A i \in DOMAIN g_passes, j \in DOMAIN g_passes :
        (/\ i < j
         /\ Independent(g_passes[i], g_passes[j])
         /\ \A k \in (i + 1)..(j - 1) :
                Independent(g_passes[k], g_passes[i]) /\ Independent(g_passes[k], g_passes[j]))
        => BarrierSet(Swap(g_passes, i, j)) = BarrierSet(g_passes)

\* A frame was run in which two passes declared one after the other share
\* no resource, each accesses a resource, and a barrier is needed.
C14_Witness ==
    /\ g_pc = "done"
    /\ BarrierSet(g_passes) # {}
    /\ \E i \in 1..(Len(g_passes) - 1) :
           /\ Independent(g_passes[i], g_passes[i + 1])
           /\ g_passes[i].acc # NoAccess
           /\ g_passes[i + 1].acc # NoAccess
           /\ BarrierSet(Swap(g_passes, i, i + 1)) = BarrierSet(g_passes)

\* C15: a pass that waits on a staging ticket is never executed by the device
\* before the upload of that ticket has completed, and neither is any pass
\* declared after it in the frame (the passes following the editor's "wait
\* for staging" pass).
C15_NoExecBeforeUploadLands ==
    (g_pc \in {"exec", "done"}) =>
        \A n \in DOMAIN g_passes, m \in DOMAIN g_passes :
            (n <= m /\ g_passes[n].wait # 0 /\ Executed(m)) =>
                g_passes[n].wait \in g_landed

\* A frame with a staging pass, the editor's wait pass and a pass following
\* them was executed to the end; the second upload completed first.
C15_Witness ==
    /\ g_pc = "done"
    /\ Len(g_passes) = 3
    /\ g_passes[1].label = "stage"
    /\ g_passes[2].label = "wait for staging"
    /\ g_passes[3].label = "pass"
    /\ Executed(3)
    /\ g_landed = {1, 2}

----------------------------------------------------------------------------
(* Claims about reference drops and release notifications *)

\* The GPU resources the Mesh o owns.
MeshResources(o) == ResOf(o, MeshFields)

\* This step drops a strong reference to o.
DropStep(o) == mesh'[o].strong = mesh[o].strong - 1 /\ mesh[o].state = "live"

\* C16: while a mesh has a strong reference, none of its resources is in the
\* release channel, in the deletion queue or destroyed; a drop destroys
\* nothing itself; only the drop of the last reference hands the resources
\* over, and a drop of another reference hands over nothing.
C16_DropNeverDestroys ==
    /\ [](\A o \in Objs :
              mesh[o].state = "live" =>
                  /\ mesh[o].strong >= 1
                  /\ \A r \in MeshResources(o) :
                         /\ r \in alloc
                         /\ destroy_count[r] = 0
                         /\ ~Queued(r)
                         /\ r \notin Range(chan))
    /\ [][\A o \in Objs :
              DropStep(o) =>
                  /\ destroy_count' = destroy_count
                  /\ alloc' = alloc
                  /\ delete' = delete
                  /\ IF mesh[o].strong = 1
                     THEN Range(chan') = Range(chan) \cup MeshResources(o)
                     ELSE chan' = chan]_vars

\* The last of two references was dropped: the resources are in the release
\* channel, still allocated, none destroyed.
C16_Witness ==
    \E o \in Objs :
        /\ Released(o)
        /\ MeshResources(o) \subseteq Range(chan)
        /\ MeshResources(o) \subseteq alloc
        /\ \A r \in MeshResources(o) : destroy_count[r] = 0
        /\ frame >= 1

\* This step is a tick: the release channel is drained.
TickStep == chan # <<>> /\ chan' = <<>>

\* How often r is pending in the release channel.
Pending(r) == Cardinality({i \in DOMAIN chan : chan[i] = r})

\* How many entries the deletion queue holds for r.
Entries(r) == Cardinality({e \in delete : e.res = r})

----------------------------------------------------------------------------
(* The mesh container: Importer::convert_meshlets lays the meshlets out in  *)
(* one vertex and one index array; the container stores the counts, the     *)
(* meshlet records and the two arrays, little-endian and tightly packed.    *)
(* A vertex and an f32 are opaque words of the stream; integers are bytes.  *)

\* meshopt::build_meshlets(.., 64, 124, 0.5): at most this many vertices
MaxMeshletVerts == 64

\* Variant of MappedMeshlets for a clustering whose limits were 320 vertices
\* and 300 triangles.
MappedMeshlets_wide ==
    [vertex_count : {3, 320}, tri_count : {1, 300}]

\* The sizes a MappedMeshlet handed to convert_meshlets may have: the
\* smallest triangle and a full meshlet.
MappedMeshlets ==
    [vertex_count : {3, MaxMeshletVerts}, tri_count : {1, MaxMeshletTris}]

RECURSIVE SeqsUpTo(_, _)
SeqsUpTo(S, n) ==
    IF n = 0 THEN {<<>>}
    ELSE SeqsUpTo(S, n - 1) \cup
         {Append(q, x) : q \in {y \in SeqsUpTo(S, n - 1) : Len(y) = n - 1}, x \in S}

\* `as u8`
as_u8(x) == x % 256

\* `as u32` of a usize: the lengths of the model stay far below 2^32 (the
\* checker's integers end at 2^31 - 1), so the conversion keeps the value.
as_u32(x) == x

\* Variant of meshlet_record that takes the offsets after the meshlet's data
\* was appended.
meshlet_record_late_offsets(indices_len, vertices_len, m) ==
    [index_offset  |-> as_u32(indices_len + 3 * m.tri_count),
     vertex_offset |-> as_u32(vertices_len + m.vertex_count),
     tri_count     |-> as_u8(m.tri_count),
     vert_count    |-> as_u8(m.vertex_count)]

\* Variant of meshlet_record whose index_offset counts triangles.
meshlet_record_tri_offsets(indices_len, vertices_len, m) ==
    [index_offset  |-> as_u32(indices_len \div 3),
     vertex_offset |-> as_u32(vertices_len),
     tri_count     |-> as_u8(m.tri_count),
     vert_count    |-> as_u8(m.vertex_count)]

\* mod.rs:119-138: the Meshlet written for m when out.indices and
\* out.vertices have the given lengths.
meshlet_record(indices_len, vertices_len, m) ==
    [index_offset  |-> as_u32(indices_len),
     vertex_offset |-> as_u32(vertices_len),
     tri_count     |-> as_u8(m.tri_count),
     vert_count    |-> as_u8(m.vertex_count)]

\* Importer::convert_meshlets (mod.rs:105-142): out.vertices and out.indices
\* grow by each meshlet's vertices and 3 * tri_count local indices.
RECURSIVE convert_meshlets(_, _)
convert_meshlets(ms, out) ==
    IF ms = <<>> THEN out
    ELSE LET m == Head(ms) IN
         convert_meshlets(Tail(ms),
             [vertices |-> out.vertices \o [i \in 1..m.vertex_count |-> "vertex"],
              indices  |-> out.indices \o
                           [i \in 1..(3 * m.tri_count) |-> as_u8((i - 1) % m.vertex_count)],
              meshlets |-> Append(out.meshlets,
                                  meshlet_record(Len(out.indices), Len(out.vertices), m))])

EmptyMesh == [vertices |-> <<>>, indices |-> <<>>, meshlets |-> <<>>]

\* A u32, little-endian.
u32_le(x) == <<x % 256, (x \div 256) % 256, (x \div 65536) % 256, (x \div 16777216) % 256>>

\* The u32 read from four little-endian bytes.
u32_from_le(b) == b[1] + 256 * b[2] + 65536 * b[3] + 16777216 * b[4]

\* One meshlet record of the container: offsets, counts.
encode_meshlet(m) ==
    u32_le(m.index_offset) \o u32_le(m.vertex_offset) \o <<m.tri_count, m.vert_count>>

RECURSIVE encode_meshlets(_)
encode_meshlets(ms) ==
    IF ms = <<>> THEN <<>> ELSE encode_meshlet(Head(ms)) \o encode_meshlets(Tail(ms))

\* The container: vertex count, index count, meshlet count, the meshlet
\* array, the vertex array, the index array.
encode(m) ==
    u32_le(Len(m.vertices)) \o u32_le(Len(m.indices)) \o u32_le(Len(m.meshlets))
    \o encode_meshlets(m.meshlets) \o m.vertices \o m.indices

\* Size of a meshlet record in the stream.
MeshletRecordLen == Len(encode_meshlet([index_offset |-> 0, vertex_offset |-> 0,
                                         tri_count |-> 0, vert_count |-> 0]))

decode_meshlet(b) ==
    [index_offset  |-> u32_from_le(SubSeq(b, 1, 4)),
     vertex_offset |-> u32_from_le(SubSeq(b, 5, 8)),
     tri_count     |-> b[9],
     vert_count    |-> b[10]]

\* Reading the container back.
decode(b) ==
    LET nv  == u32_from_le(SubSeq(b, 1, 4))
        ni  == u32_from_le(SubSeq(b, 5, 8))
        nm  == u32_from_le(SubSeq(b, 9, 12))
        at  == 12 + nm * MeshletRecordLen
    IN  [meshlets |-> [i \in 1..nm |->
                          decode_meshlet(SubSeq(b, 13 + (i - 1) * MeshletRecordLen,
                                                12 + i * MeshletRecordLen))],
         vertices |-> SubSeq(b, at + 1, at + nv),
         indices  |-> SubSeq(b, at + nv + 1, at + nv + ni),
         rest     |-> Len(b) - (at + nv + ni)]

\* The import hands its meshlets to convert_meshlets.
Convert ==
    /\ c_pc = "import"
    /\ c_mesh' = convert_meshlets(c_in, EmptyMesh)
    /\ c_pc' = "converted"
    /\ UNCHANGED <<c_in, c_bytes, c_out>>
    /\ UNCHANGED <<coreVars, loadVars, importVars, graphVars, renderVars, extVars>>

\* The mesh is written to the container.
Encode ==
    /\ c_pc = "converted"
    /\ c_bytes' = encode(c_mesh)
    /\ c_pc' = "encoded"
    /\ UNCHANGED <<c_in, c_mesh, c_out>>
    /\ UNCHANGED <<coreVars, loadVars, importVars, graphVars, renderVars, extVars>>

\* The container is read back.
Decode ==
    /\ c_pc = "encoded"
    /\ c_out' = decode(c_bytes)
    /\ c_pc' = "decoded"
    /\ UNCHANGED <<c_in, c_mesh, c_bytes>>
    /\ UNCHANGED <<coreVars, loadVars, importVars, graphVars, renderVars, extVars>>

CodecInit ==
    /\ c_pc = "import"
    /\ c_in \in SeqsUpTo(MappedMeshlets, MaxMeshlets)
    /\ c_mesh = <<>>
    /\ c_bytes = <<>>
    /\ c_out = <<>>

CodecNext == Convert \/ Encode \/ Decode

CodecSpecInit == CoreInit /\ LoadIdle /\ ImportIdle /\ GraphIdle /\ CodecInit /\ RenderIdle /\ ExtIdle

CodecSpec == CodecSpecInit /\ [][CodecNext]_vars

\* Indices and vertices of the first n meshlets of the import.
IndexLen(ms, n) == SumSeq([i \in 1..n |-> 3 * ms[i].tri_count])

VertexLen(ms, n) == SumSeq([i \in 1..n |-> ms[i].vertex_count])

----------------------------------------------------------------------------
(* Claims about device failures during a load *)

\* C19: a device failure during an asset load reaches the caller as an error
\* value of the device variant, distinct from an asset-source error; the
\* call neither panics nor reports success.
C19_DeviceFailurePropagated ==
    last_load.device_failed =>
        /\ last_load.result = "Err(device)"
        /\ ~last_load.panic
        /\ ~last_load.ok

----------------------------------------------------------------------------
(* The Renderer of the editor (editor/src/ui/render/mod.rs) *)

MaxRenders == 3

\* The scenes the editor can select.
RScenes == {"s1", "s2"}

\* What AssetRuntime::load_scene hands back to render_inner (mod.rs:97-103):
\* Ok with a staging ticket, Ok without one, or Err.
LoadSceneResults == {"Ok(Some(ticket))", "Ok(None)", "Err"}

\* VisBuffer::run (visbuffer.rs:240-243): init_visibility declares the
\* "reset workgroups" pass (visbuffer.rs:194), run the "visbuffer" pass.
visbuffer_run == <<"reset workgroups", "visbuffer">>

\* DebugMeshlets::run (mod.rs:121) declares the pass that draws the image.
debug_run == <<"debug">>

\* AssetRuntime::get_scene (mod.rs:110): Some for a resident scene.
get_scene(loaded, scene) == scene \in loaded

\* What render_inner returns when it adds nothing to the frame.
RenderNothing(ret, loaded) ==
    [ret |-> ret, passes |-> <<>>, log |-> 0, loads |-> 0, loaded |-> loaded,
     panic |-> FALSE]

\* Variant of render_inner that logs a failed load and carries on.
render_inner_ignores_error(scene, system, load, loaded) ==
    IF scene = "none" \/ ~system THEN RenderNothing("Some(true)", loaded)
    ELSE LET now  == IF load = "Err" THEN loaded ELSE loaded \cup {scene}
             wait == IF load = "Ok(Some(ticket))"
                     THEN <<"wait for staging">> ELSE <<>>
         IN  IF ~get_scene(now, scene)
             THEN [ret |-> "panic", passes |-> wait, log |-> 1, loads |-> 1,
                   loaded |-> now, panic |-> TRUE]
             ELSE [ret |-> "Some(false)",
                   passes |-> wait \o visbuffer_run \o debug_run,
                   log |-> IF load = "Err" THEN 1 ELSE 0, loads |-> 1,
                   loaded |-> now, panic |-> FALSE]

\* Renderer::render_inner (mod.rs:73-125).
render_inner(scene, system, load, loaded) ==
    \* mod.rs:77-82: no scene, or no asset system
    IF scene = "none" \/ ~system THEN RenderNothing("Some(true)", loaded)
    \* mod.rs:99-102: event!(Level::ERROR, ..); return None
    ELSE IF load = "Err"
    THEN [ret |-> "None", passes |-> <<>>, log |-> 1, loads |-> 1,
          loaded |-> loaded, panic |-> FALSE]
    ELSE LET now  == loaded \cup {scene}
             \* mod.rs:104-108
             wait == IF load = "Ok(Some(ticket))"
                     THEN <<"wait for staging">> ELSE <<>>
         IN  \* mod.rs:110: get_scene(scene).unwrap()
             IF ~get_scene(now, scene)
             THEN [ret |-> "panic", passes |-> wait, log |-> 0, loads |-> 1,
                   loaded |-> now, panic |-> TRUE]
             \* mod.rs:111-124
             ELSE [ret |-> "Some(false)",
                   passes |-> wait \o visbuffer_run \o debug_run,
                   log |-> 0, loads |-> 1, loaded |-> now, panic |-> FALSE]

\* Renderer::render (mod.rs:58-70): what the central panel shows for the
\* value render_inner returned.
panel_label(ret) ==
    CASE ret = "Some(true)"  -> "no scene loaded"
      [] ret = "Some(false)" -> "image"
      [] ret = "None"        -> "error rendering scene"
      [] OTHER               -> "none"

\* Renderer::set_scene (mod.rs:47-52): the scene shown before is unloaded.
SetScene(scene) ==
    /\ ~r_panic
    /\ r_loaded' = r_loaded \ {r_scene}
    /\ r_scene' = scene
    /\ UNCHANGED <<r_label, r_log, r_loads, r_frame_passes, r_renders, r_in, r_panic>>
    /\ UNCHANGED <<coreVars, loadVars, importVars, graphVars, codecVars, extVars>>

\* Renderer::render (mod.rs:54-71) in a new frame.
Render(system, load) ==
    /\ ~r_panic
    /\ r_renders < MaxRenders
    /\ LET r == render_inner(r_scene, system, load, r_loaded) IN
       /\ r_label' = panel_label(r.ret)
       /\ r_log' = r_log + r.log
       /\ r_loads' = r_loads + r.loads
       /\ r_frame_passes' = r.passes
       /\ r_loaded' = r.loaded
       /\ r_panic' = r.panic
    /\ r_in' = [system |-> system, load |-> load]
    /\ r_renders' = r_renders + 1
    /\ UNCHANGED r_scene
    /\ UNCHANGED <<coreVars, loadVars, importVars, graphVars, codecVars, extVars>>

RenderNext ==
    \/ \E scene \in RScenes : SetScene(scene)
    \/ \E system \in BOOLEAN, load \in LoadSceneResults : Render(system, load)

RenderSpecInit == CoreInit /\ LoadIdle /\ ImportIdle /\ GraphIdle /\ CodecIdle /\ RenderIdle /\ ExtIdle

RenderSpec == RenderSpecInit /\ [][RenderNext]_vars

----------------------------------------------------------------------------
(* Claims about the Renderer *)

\* This step is a render call.
RenderStep == r_renders' = r_renders + 1

\* The passes that draw the scene.
ScenePasses == Range(visbuffer_run) \cup Range(debug_run)

\* C20: a render call whose scene load fails shows "error rendering scene",
\* logs the error once, adds no visbuffer or debug pass to the frame and does
\* not panic; a render call with no scene or no asset system shows "no scene
\* loaded" and does not call load_scene.
C20_RenderDegradesToPlaceholder ==
    [][RenderStep =>
          /\ (r_scene # "none" /\ r_in'.system /\ r_in'.load = "Err") =>
                 /\ r_label' = "error rendering scene"
                 /\ r_log' = r_log + 1
                 /\ Range(r_frame_passes') \cap ScenePasses = {}
                 /\ ~r_panic'
          /\ (r_scene = "none" \/ ~r_in'.system) =>
                 /\ r_label' = "no scene loaded"
                 /\ r_loads' = r_loads
                 /\ r_frame_passes' = <<>>
                 /\ ~r_panic']_vars

\* One render call without an asset system, then one whose load failed.
C20_Witness ==
    /\ r_scene \in RScenes
    /\ r_renders = 2
    /\ r_loads = 1
    /\ r_log = 1
    /\ r_in = [system |-> TRUE, load |-> "Err"]
    /\ r_label = "error rendering scene"
    /\ r_frame_passes = <<>>
    /\ ~r_panic

----------------------------------------------------------------------------
(* Transient resources of one graph execution: pooling and aliasing *)

MaxTransients == 3
MaxAliasPasses == 3

\* The transient resources declared with pass.resource(desc, usage) in the
\* frame (visbuffer.rs:283-330 declares three: camera, visbuffer, depth).
Transients == 1..MaxTransients

\* A lifetime: the passes of the first and of the last use within the frame.
Lifetimes ==
    {l \in [first : 1..MaxAliasPasses, last : 1..MaxAliasPasses] : l.first <= l.last}

\* Variant of lifetimes_overlap that lets a resource whose last use is in a
\* pass share memory with one whose first use is in the same pass.
lifetimes_overlap_open(a, b) == a.first < b.last /\ b.first < a.last

\* Two lifetimes overlap when some pass lies in both.
lifetimes_overlap(a, b) == a.first <= b.last /\ b.first <= a.last

\* The resources already placed in block k.
Occupants(block, k) == {r \in DOMAIN block : block[r] = k}

\* Block k can back resource r: none of its occupants is alive with r.
block_free(life, block, k, r) ==
    \A o \in Occupants(block, k) : ~lifetimes_overlap(life[o], life[r])

\* The pool hands out the lowest block that is free for r; block
\* Cardinality(DOMAIN block) + 1 is always unused, so one exists.
pick_block(life, block, r) ==
    CHOOSE k \in 1..(Cardinality(DOMAIN block) + 1) :
        /\ block_free(life, block, k, r)
        /\ \A j \in 1..(k - 1) : ~block_free(life, block, j, r)

\* Resources are placed in the order of their first use, then of declaration.
placed_before(life, r, q) ==
    \/ life[r].first < life[q].first
    \/ life[r].first = life[q].first /\ r < q

\* The graph places the next transient resource.
Place(r) ==
    /\ a_pc = "declared"
    /\ a_block[r] = 0
    /\ \A q \in Transients : (a_block[q] = 0 /\ q # r) => placed_before(a_life, r, q)
    /\ a_block' = [a_block EXCEPT ![r] = pick_block(a_life, a_block, r)]
    /\ UNCHANGED <<a_pc, a_life>>
    /\ UNCHANGED <<coreVars, loadVars, importVars, graphVars, codecVars, renderVars, teardownVars, frameVars, visVars, connVars,
                   moreVars>>

\* Every transient resource has its memory: the frame can execute.
Compiled ==
    /\ a_pc = "declared"
    /\ \A r \in Transients : a_block[r] # 0
    /\ a_pc' = "compiled"
    /\ UNCHANGED <<a_life, a_block>>
    /\ UNCHANGED <<coreVars, loadVars, importVars, graphVars, codecVars, renderVars, teardownVars, frameVars, visVars, connVars,
                   moreVars>>

\* The passes of the frame have declared their transient resources.
AliasInit ==
    /\ a_pc = "declared"
    /\ a_life \in [Transients -> Lifetimes]
    /\ a_block = [r \in Transients |-> 0]

AliasNext ==
    \/ \E r \in Transients : Place(r)
    \/ Compiled

AliasSpecInit ==
    /\ CoreInit /\ LoadIdle /\ ImportIdle /\ GraphIdle /\ CodecIdle /\ RenderIdle
    /\ AliasInit /\ TeardownIdle /\ FrameIdle /\ VisIdle /\ ConnIdle /\ MoreIdle

AliasSpec == AliasSpecInit /\ [][AliasNext]_vars

----------------------------------------------------------------------------
(* Claims about transient resources *)

\* Resources r and q have backing memory, and it is the same block.
Aliased(r, q) == r # q /\ a_block[r] # 0 /\ a_block[r] = a_block[q]

\* C21: two transient resources of one graph execution share backing memory
\* only if their lifetimes (first use to last use within the frame) have no
\* pass in common; resources whose lifetimes overlap never share memory.
C21_AliasOnlyDisjointLifetimes ==
    a_pc \in {"declared", "compiled"} =>
        \A r, q \in Transients :
            Aliased(r, q) =>
                \/ a_life[r].last < a_life[q].first
                \/ a_life[q].last < a_life[r].first

\* A compiled frame in which two resources share a block and two resources
\* that are alive in the same pass have different blocks.
C21_Witness ==
    /\ a_pc = "compiled"
    /\ \E r, q \in Transients : Aliased(r, q)
    /\ \E r, q \in Transients :
           /\ r # q
           /\ a_life[r].last = a_life[q].first
           /\ a_block[r] # a_block[q]

----------------------------------------------------------------------------
(* Teardown: Renderer::destroy (editor/src/ui/render/mod.rs:148-152) and
   RenderCore::destroy (core/src/lib.rs:88-95) *)

\* The mesh objects of the cache some caller still holds a strong reference to.
AliveObjects(ms) == {o \in Objs : ms[o].state = "live" /\ ms[o].strong > 0}

\* Variant of runtime_destroy_check that asserts nothing.
runtime_destroy_unchecked(ms) == TRUE

\* AssetRuntime::destroy, called at mod.rs:151: the assertion that no cached
\* asset is referenced any more.
runtime_destroy_check(ms) == AliveObjects(ms) = {}

\* "Appropriate synchronization must be performed before calling this
\* function" (lib.rs:88-89): the device has finished every frame.
DeviceIdle == submitted = frame /\ completed = submitted

\* Renderer::destroy: the runtime is destroyed.  With no reference left the
\* releases still in the channel go to the deletion queue; with a reference
\* left the assertion fails and nothing is destroyed.
RendererDestroy ==
    /\ t_state = "running"
    /\ DeviceIdle
    /\ IF runtime_destroy_check(mesh)
       THEN /\ t_state' = "runtime_destroyed"
            /\ delete' = DeletionQueue_delete_all(delete, chan)
            /\ retire_log' = retire_log \cup {<<r, ActiveSnapshot>> : r \in Range(chan)}
            /\ chan' = <<>>
       ELSE /\ t_state' = "panic"
            /\ UNCHANGED <<delete, retire_log, chan>>
    /\ UNCHANGED <<frame, submitted, completed, last_frame_snapshot, frame_result,
                   alloc, destroy_count, nobjs, mesh>>
    /\ UNCHANGED <<loadVars, importVars, graphVars, codecVars, renderVars, aliasVars, frameVars, visVars, connVars,
                   moreVars>>

\* RenderCore::destroy: self.delete.destroy(device) destroys every entry of
\* the queue (lib.rs:91); staging, cache and shaders follow (lib.rs:92-94).
CoreDestroy ==
    /\ t_state = "runtime_destroyed"
    /\ LET gone == {e.res : e \in delete} IN
       /\ destroy_count' = Destroyed(destroy_count, gone)
       /\ alloc' = alloc \ gone
    /\ delete' = {}
    /\ t_state' = "destroyed"
    /\ UNCHANGED <<frame, submitted, completed, last_frame_snapshot, frame_result,
                   retire_log, nobjs, mesh, chan>>
    /\ UNCHANGED <<loadVars, importVars, graphVars, codecVars, renderVars, aliasVars, frameVars, visVars, connVars,
                   moreVars>>

\* The frame loop and the references run until teardown begins.
TeardownNext ==
    \/ t_state = "running" /\ FrameOk /\ UNCHANGED t_state
    \/ t_state = "running" /\ FrameErr /\ UNCHANGED t_state
    \/ t_state = "running" /\ Submit /\ UNCHANGED t_state
    \/ t_state = "running" /\ DeviceComplete /\ UNCHANGED t_state
    \/ \E f \in FailPoints : t_state = "running" /\ LoadMeshFromDisk(f) /\ UNCHANGED t_state
    \/ \E o \in Objs : t_state = "running" /\ Clone(o) /\ UNCHANGED t_state
    \/ \E o \in Objs : t_state = "running" /\ Drop(o) /\ UNCHANGED t_state
    \/ t_state = "running" /\ Tick /\ UNCHANGED t_state
    \/ RendererDestroy
    \/ CoreDestroy

TeardownSpecInit ==
    /\ CoreInit /\ LoadIdle /\ ImportIdle /\ GraphIdle /\ CodecIdle /\ RenderIdle
    /\ AliasIdle /\ FrameIdle /\ VisIdle /\ ConnIdle /\ MoreIdle
    /\ t_state = "running"

TeardownSpec == TeardownSpecInit /\ [][TeardownNext]_vars

----------------------------------------------------------------------------
(* Claims about teardown *)

----------------------------------------------------------------------------
(* RenderCore::frame statement by statement (core/src/lib.rs:64-73) *)

\* Variant of frame_step_after that begins the graph frame before the
\* deletion queue is advanced.
frame_step_after_advance_late(step) ==
    CASE step = "staging.poll"        -> "graph.snapshot"
      [] step = "graph.snapshot"      -> "store"
      [] step = "store"               -> "graph.frame"
      [] step = "graph.frame"         -> "delete.advance"
      [] OTHER                        -> "idle"

\* The statement that follows `step` in the body of frame:
\*   self.staging.poll(device)?;            (line 67)
\*   let snap = graph.snapshot();           (line 68)
\*   self.delete.advance(device);           (line 69)
\*   self.last_frame_snapshot = snap;       (line 70)
\*   let frame = graph.frame(..);           (line 71)
frame_step_after(step) ==
    CASE step = "staging.poll"        -> "graph.snapshot"
      [] step = "graph.snapshot"      -> "delete.advance"
      [] step = "delete.advance"      -> "store"
      [] step = "store"               -> "graph.frame"
      [] OTHER                        -> "idle"

\* The call executes the statement it is at and moves to the next.
StepDone(step) ==
    /\ f_pc = step
    /\ f_trace' = Append(f_trace, step)
    /\ f_pc' = frame_step_after(step)

\* RenderCore::frame is called; the previous CoreFrame, which borrows the
\* RenderCore mutably, has been run.
FrameCall ==
    /\ f_pc = "idle"
    /\ submitted = frame
    /\ frame < MaxFrames
    /\ f_pc' = "staging.poll"
    /\ f_trace' = <<>>
    /\ UNCHANGED f_snap
    /\ UNCHANGED <<coreVars, loadVars, importVars, graphVars, codecVars, renderVars,
                   aliasVars, teardownVars, visVars, connVars,
                   moreVars>>

\* Variant of StepPoll that advances the deletion queue before it returns
\* the error of staging.poll.
StepPoll_advance_on_error(ok) ==
    /\ f_pc = "staging.poll"
    /\ f_trace' = Append(f_trace, "staging.poll")
    /\ IF ok
       THEN /\ f_pc' = frame_step_after("staging.poll")
            /\ UNCHANGED <<frame_result, delete, destroy_count, alloc>>
       ELSE /\ f_pc' = "idle"
            /\ frame_result' = "err"
            /\ delete' = DeletionQueue_advance_kept(delete)
            /\ destroy_count' = Destroyed(destroy_count,
                                          DeletionQueue_advance_destroyed(delete))
            /\ alloc' = alloc \ DeletionQueue_advance_destroyed(delete)
    /\ UNCHANGED f_snap
    /\ UNCHANGED <<frame, submitted, completed, last_frame_snapshot,
                   retire_log, nobjs, mesh, chan>>
    /\ UNCHANGED <<loadVars, importVars, graphVars, codecVars, renderVars,
                   aliasVars, teardownVars, visVars, connVars,
                   moreVars>>

\* lib.rs:67: staging.poll(device)?, which returns the error on failure.
StepPoll(ok) ==
    /\ f_pc = "staging.poll"
    /\ f_trace' = Append(f_trace, "staging.poll")
    /\ IF ok
       THEN f_pc' = frame_step_after("staging.poll") /\ UNCHANGED frame_result
       ELSE f_pc' = "idle" /\ frame_result' = "err"
    /\ UNCHANGED f_snap
    /\ UNCHANGED <<frame, submitted, completed, last_frame_snapshot, delete, alloc,
                   destroy_count, retire_log, nobjs, mesh, chan>>
    /\ UNCHANGED <<loadVars, importVars, graphVars, codecVars, renderVars,
                   aliasVars, teardownVars, visVars, connVars,
                   moreVars>>

\* lib.rs:68
StepSnapshot ==
    /\ StepDone("graph.snapshot")
    /\ f_snap' = graph_snapshot
    /\ UNCHANGED <<coreVars, loadVars, importVars, graphVars, codecVars, renderVars,
                   aliasVars, teardownVars, visVars, connVars,
                   moreVars>>

\* lib.rs:69
StepAdvance ==
    /\ StepDone("delete.advance")
    /\ LET gone == DeletionQueue_advance_destroyed(delete) IN
       /\ delete' = DeletionQueue_advance_kept(delete)
       /\ destroy_count' = Destroyed(destroy_count, gone)
       /\ alloc' = alloc \ gone
    /\ UNCHANGED f_snap
    /\ UNCHANGED <<frame, submitted, completed, last_frame_snapshot, frame_result,
                   retire_log, nobjs, mesh, chan>>
    /\ UNCHANGED <<loadVars, importVars, graphVars, codecVars, renderVars,
                   aliasVars, teardownVars, visVars, connVars,
                   moreVars>>

\* Variant of StepStore that stores ExecutionSnapshot::default().
StepStore_default ==
    /\ StepDone("store")
    /\ last_frame_snapshot' = 0
    /\ UNCHANGED f_snap
    /\ UNCHANGED <<frame, submitted, completed, frame_result, delete, alloc,
                   destroy_count, retire_log, nobjs, mesh, chan>>
    /\ UNCHANGED <<loadVars, importVars, graphVars, codecVars, renderVars,
                   aliasVars, teardownVars, visVars, connVars,
                   moreVars>>

\* lib.rs:70
StepStore ==
    /\ StepDone("store")
    /\ last_frame_snapshot' = f_snap
    /\ UNCHANGED f_snap
    /\ UNCHANGED <<frame, submitted, completed, frame_result, delete, alloc,
                   destroy_count, retire_log, nobjs, mesh, chan>>
    /\ UNCHANGED <<loadVars, importVars, graphVars, codecVars, renderVars,
                   aliasVars, teardownVars, visVars, connVars,
                   moreVars>>

\* lib.rs:71-72: the graph begins the new frame; Ok(frame) is returned.
StepGraphFrame ==
    /\ StepDone("graph.frame")
    /\ frame' = frame + 1
    /\ frame_result' = "ok"
    /\ UNCHANGED f_snap
    /\ UNCHANGED <<submitted, completed, last_frame_snapshot, delete, alloc,
                   destroy_count, retire_log, nobjs, mesh, chan>>
    /\ UNCHANGED <<loadVars, importVars, graphVars, codecVars, renderVars,
                   aliasVars, teardownVars, visVars, connVars,
                   moreVars>>

\* Between two calls the frame is run and submitted, meshes are loaded and
\* released and tick drains the channel; the device completes work and
\* references are dropped at any time.
FrameStepNext ==
    \/ FrameCall
    \/ \E ok \in BOOLEAN : StepPoll(ok)
    \/ StepSnapshot
    \/ StepAdvance
    \/ StepStore
    \/ StepGraphFrame
    \/ f_pc = "idle" /\ Submit
    \/ DeviceComplete
    \/ f_pc = "idle" /\ LoadMeshFromDisk("none")
    \/ \E o \in Objs : Drop(o)
    \/ f_pc = "idle" /\ Tick

FrameStepSpecInit ==
    /\ CoreInit /\ LoadIdle /\ ImportIdle /\ GraphIdle /\ CodecIdle /\ RenderIdle
    /\ ExtIdle

FrameStepSpec == FrameStepSpecInit /\ [][FrameStepNext]_vars

----------------------------------------------------------------------------
(* Claims about the order of RenderCore::frame *)

\* The order the steps of a frame call have to take.
FrameOrder == <<"staging.poll", "graph.snapshot", "delete.advance", "store", "graph.frame">>

IsPrefix(s, t) == Len(s) <= Len(t) /\ \A i \in 1..Len(s) : s[i] = t[i]

\* C23: the steps of every RenderCore::frame call happen in the order
\* staging.poll, graph.snapshot, delete.advance, store of
\* last_frame_snapshot, graph.frame, each at most once; when the graph begins
\* the new frame, staging.poll and delete.advance have each completed exactly
\* once in this call.
C23_FrameStepOrder ==
    /\ [](f_pc # "idle" \/ f_trace # <<>> => IsPrefix(f_trace, FrameOrder))
    /\ [][frame' = frame + 1 => f_trace' = FrameOrder]_vars
    /\ [][destroy_count' # destroy_count =>
             /\ f_trace' = SubSeq(FrameOrder, 1, 3)
             /\ frame' = frame]_vars

\* A call that went through all five steps and destroyed a retired resource
\* in its advance.
C23_Witness ==
    /\ f_pc = "idle"
    /\ f_trace = FrameOrder
    /\ frame = 2
    /\ \E r \in Resources : destroy_count[r] = 1

----------------------------------------------------------------------------
(* Claims about the frame-in-flight snapshot *)

\* C24: across any sequence of RenderCore::frame calls last_frame_snapshot
\* never decreases; the snapshot a call takes covers every frame submitted
\* so far, and the call that begins frame N + 1 leaves last_frame_snapshot
\* covering frame N.
C24_SnapshotMonotonic ==
    /\ [][last_frame_snapshot' >= last_frame_snapshot]_vars
    /\ [](f_pc \in {"delete.advance", "store", "graph.frame"} => f_snap = submitted)
    /\ [](last_frame_snapshot <= submitted)
    /\ [][frame' = frame + 1 => last_frame_snapshot' = frame]_vars

\* The second frame has begun: the stored snapshot covers the first.
C24_Witness ==
    /\ f_pc = "idle"
    /\ frame = 2
    /\ submitted = 1
    /\ last_frame_snapshot = 1

----------------------------------------------------------------------------
(* VisBuffer: the persistent visibility buffer (passes/src/mesh/visbuffer.rs) *)

MaxVisFrames == 4
MaxPointerCount == 3

\* visbuffer.rs:453: size = meshlet_pointer_count * 2 * 4 bytes, counted
\* here in units of 8 bytes.
visibility_size(count) == count

\* Variant of visibility_needs_new that replaces the buffer whenever the
\* size asked for differs from the size held.
visibility_needs_new_on_change(size, held) == held # size

\* PersistentBuffer::next: the half read and the half written by this
\* frame; the halves change roles for the next frame.
persistent_next(cur) == [read |-> cur, write |-> 1 - cur, cur |-> 1 - cur]

\* The workgroup buffer is created once, in VisBuffer::new (visbuffer.rs:136-169).
Workgroups == 0

\* visbuffer.rs:454: no buffer yet, or the one held is too small.
visibility_needs_new(size, held) == held = 0 \/ held < size

\* The frames whose commands the device has not finished.
InFlight == {f \in DOMAIN v_refs : f > v_completed}

\* VisBuffer::run in a new frame for a scene with `count` meshlet pointers
\* (visbuffer.rs:240-352).  init_visibility calls visibility (180), which
\* replaces a buffer that is too small and destroys the old one on the spot
\* (456-468: old.destroy(device)); the frame's passes then reference the
\* buffer now held (184-209, 243-275) and the frame is submitted.
VisRun(count) ==
    /\ Len(v_refs) < MaxVisFrames
    /\ LET size == visibility_size(count) IN
       IF visibility_needs_new(size, v_size)
       THEN /\ v_nbufs' = v_nbufs + 1
            /\ v_buf' = v_nbufs + 1
            /\ v_size' = size
            /\ v_destroyed' = IF v_buf # 0 THEN v_destroyed \cup {v_buf} ELSE v_destroyed
       ELSE UNCHANGED <<v_nbufs, v_buf, v_size, v_destroyed>>
    /\ v_refs' = Append(v_refs, v_buf')
    /\ LET new  == visibility_needs_new(visibility_size(count), v_size)
           data == persistent_next(IF new THEN 0 ELSE v_cur)
           work == persistent_next(w_cur)
       IN  /\ v_cur' = data.cur
           /\ w_cur' = work.cur
           /\ v_io' = Append(v_io, [new   |-> new,
                                    count |-> count,
                                    held  |-> v_size,
                                    size  |-> v_size',
                                    rd    |-> <<v_buf', data.read>>,
                                    wd    |-> <<v_buf', data.write>>,
                                    rw    |-> <<Workgroups, work.read>>,
                                    ww    |-> <<Workgroups, work.write>>])
    /\ UNCHANGED v_completed
    /\ UNCHANGED <<coreVars, loadVars, importVars, graphVars, codecVars, renderVars,
                   aliasVars, teardownVars, frameVars, connVars,
                   moreVars>>

\* The device finishes the oldest frame in flight.
VisDeviceComplete ==
    /\ v_completed < Len(v_refs)
    /\ v_completed' = v_completed + 1
    /\ UNCHANGED <<v_size, v_buf, v_nbufs, v_destroyed, v_refs, v_cur, w_cur, v_io>>
    /\ UNCHANGED <<coreVars, loadVars, importVars, graphVars, codecVars, renderVars,
                   aliasVars, teardownVars, frameVars, connVars,
                   moreVars>>

VisNext ==
    \/ \E count \in 1..MaxPointerCount : VisRun(count)
    \/ VisDeviceComplete

VisSpecInit ==
    /\ CoreInit /\ LoadIdle /\ ImportIdle /\ GraphIdle /\ CodecIdle /\ RenderIdle
    /\ ExtIdle

VisSpec == VisSpecInit /\ [][VisNext]_vars

----------------------------------------------------------------------------
(* Claims about the visibility buffer *)

\* C25: a visibility buffer that was replaced because the scene's meshlet
\* count grew is not physically destroyed while the commands of a frame
\* still in flight reference it.
C25_OldVisibilityOutlivesFrames ==
    \A f \in InFlight : v_refs[f] \notin v_destroyed

----------------------------------------------------------------------------
(* Claims about the errors a LOD level assigns *)

\* The step that merges the results of a level (mod.rs:91-99).
MergeStep == pc = "par" /\ pc' = "loop"

\* The largest of a non-empty set of radii.
MaxOf(S) == CHOOSE x \in S : \A y \in S : y <= x

\* The meshlets the merge of this step produced from group g.
ProducedFrom(g) ==
    {i \in (Len(meshlets) + 1)..Len(meshlets') : meshlets'[i].from = Range(groups[g])}

\* C26: for every group simplified in a level, the parent_group_error given
\* to each input meshlet of the group equals the group_error of every
\* meshlet produced from the group, and its radius is the radius of the
\* simplification error plus the largest group_error radius of the inputs.
C26_GroupErrorPropagation ==
    [][MergeStep =>
          \A g \in DOMAIN groups :
              par[g].tag = "some" =>
                  LET e == par[g].step
                           + MaxOf({M(mid).group_error : mid \in Range(groups[g])})
                  IN  /\ \A mid \in Range(groups[g]) :
                             meshlets'[mid + 1].parent_group_error = e
                      /\ \A i \in ProducedFrom(g) : meshlets'[i].group_error = e
                      /\ Cardinality(ProducedFrom(g)) = Len(par[g].clusters)]_vars

\* A second-level group whose inputs have errors 0 and 1 was simplified
\* with a step error of 1: its inputs and its product carry the error 2.
C26_Witness ==
    /\ pc \in {"loop", "done"}
    /\ \E i \in DOMAIN meshlets :
           /\ meshlets[i].group_error = 2
           /\ \E a \in meshlets[i].from, b \in meshlets[i].from :
                  /\ M(a).group_error = 0
                  /\ M(b).group_error = 1
           /\ \A a \in meshlets[i].from : M(a).parent_group_error = 2

\* C27: a group of exactly one meshlet is never simplified: no task runs for
\* it, no meshlet of the next level is produced from it and its meshlet keeps
\* the infinite parent_group_error radius it was created with; the same holds
\* for a group whose simplification returned nothing.
C27_SingletonGroupsNotSimplified ==
    /\ [](pc = "par" =>
            \A g \in DOMAIN groups : Len(groups[g]) = 1 => par[g].tag = "filtered")
    /\ [][MergeStep =>
             \A g \in DOMAIN groups :
                 (Len(groups[g]) = 1 \/ par[g].tag = "none") =>
                     /\ ProducedFrom(g) = {}
                     /\ \A mid \in Range(groups[g]) :
                            /\ M(mid).parent_group_error = F32_INFINITY
                            /\ meshlets'[mid + 1].parent_group_error = F32_INFINITY]_vars

\* The first level grouped five leaf meshlets into four and one: the four
\* were simplified, the single one kept its infinite parent error; in the
\* second level the simplifier returned nothing for the group, whose
\* meshlets kept their infinite parent error too.
C27_Witness ==
    /\ pc \in {"loop", "done"}
    /\ lod = 3
    /\ Cardinality({i \in DOMAIN meshlets :
                        /\ meshlets[i].from = {}
                        /\ meshlets[i].parent_group_error < F32_INFINITY}) = 4
    /\ Cardinality({i \in DOMAIN meshlets :
                        /\ meshlets[i].from = {}
                        /\ meshlets[i].parent_group_error = F32_INFINITY}) = 1
    /\ \E g \in DOMAIN groups :
           /\ par[g].tag = "none"
           /\ Len(groups[g]) > 1
           /\ \A mid \in Range(groups[g]) : M(mid).parent_group_error = F32_INFINITY

----------------------------------------------------------------------------
(* Claims about the grouping of a level *)

\* The positions of the returned groups that hold meshlet index mid.
GroupSlots(mid) ==
    {<<g, k>> \in (DOMAIN groups) \X (1..MaxTris) :
        k \in DOMAIN groups[g] /\ groups[g][k] = mid}

\* C28: generate_groups returns a partition of the active range: every
\* meshlet index of the range is in exactly one group, exactly once, no index
\* outside the range is in a group, and there are ceil(n / 4) groups for the
\* n meshlets of the range.
C28_GroupsPartitionRange ==
    pc = "par" =>
        LET n == simplify[2] - simplify[1] IN
        /\ Len(groups) = (n + 3) \div 4
        /\ \A mid \in simplify[1]..(simplify[2] - 1) : Cardinality(GroupSlots(mid)) = 1
        /\ \A g \in DOMAIN groups : \A k \in DOMAIN groups[g] :
               groups[g][k] \in simplify[1]..(simplify[2] - 1)

\* Five meshlets grouped into two groups, neither of them empty.
C28_Witness ==
    /\ pc = "par"
    /\ simplify = <<0, 5>>
    /\ Len(groups) = 2
    /\ Len(groups[1]) = 3
    /\ Len(groups[2]) = 2

----------------------------------------------------------------------------
(* Importer::find_connections (asset/src/import/mesh/mod.rs:248-288) *)

MaxConnMeshlets == 3

\* The triangles a meshlet can hold: the four triangles over four vertices,
\* as index triples in mixed winding (verts[i0], verts[i1], verts[i2]).
ConnTriangles == {<<1, 2, 3>>, <<4, 3, 2>>, <<1, 3, 4>>, <<2, 4, 1>>}

\* A meshlet: one triangle, or two different ones (which share an edge).
ConnMeshlets ==
    {<<t>> : t \in ConnTriangles}
    \cup {p \in ConnTriangles \X ConnTriangles :
              \/ p[1][1] < p[2][1]
              \/ (p[1][1] = p[2][1] /\ p[1][2] < p[2][2])}

Min(a, b) == IF a <= b THEN a ELSE b

\* Variant of conn_edge that keeps the direction of the edge.
conn_edge_directed(v0, v1) == <<v0, v1>>

\* mod.rs:262: edge = (v0.min(v1), v0.max(v1))
conn_edge(v0, v1) == <<Min(v0, v1), Max(v0, v1)>>

\* mod.rs:257-262: the three edges of a triangle, j = 0, 1, 2.
tri_edges(t) == <<conn_edge(t[1], t[2]), conn_edge(t[2], t[3]), conn_edge(t[3], t[1])>>

\* mod.rs:263-266: shared_edges.entry(edge).or_insert(Vec::new()), then push
\* unless the last element is mid.
push_mid(shared, edge, mid) ==
    IF edge \in DOMAIN shared
    THEN IF shared[edge][Len(shared[edge])] # mid
         THEN [shared EXCEPT ![edge] = Append(@, mid)]
         ELSE shared
    ELSE shared @@ (edge :> <<mid>>)

RECURSIVE push_edges(_, _, _)
push_edges(shared, edges, mid) ==
    IF edges = <<>> THEN shared
    ELSE push_edges(push_mid(shared, Head(edges), mid), Tail(edges), mid)

RECURSIVE push_tris(_, _, _)
push_tris(shared, tris, mid) ==
    IF tris = <<>> THEN shared
    ELSE push_tris(push_edges(shared, tri_edges(Head(tris)), mid), Tail(tris), mid)

\* mod.rs:252-269: the loop over the meshlets mid..end of the range.
RECURSIVE shared_edges(_, _, _, _)
shared_edges(shared, ms, mid, end) ==
    IF mid >= end THEN shared
    ELSE shared_edges(push_tris(shared, ms[mid + 1], mid), ms, mid + 1, end)

\* mod.rs:271-280: one increment of shared_count[(min, max)] per edge and per
\* pair of positions i < j of its meshlet list.
shared_count(shared, m1, m2) ==
    Cardinality({<<e, i, j>> \in (DOMAIN shared) \X (1..MaxConnMeshlets) \X (1..MaxConnMeshlets) :
                    /\ i < j
                    /\ j <= Len(shared[e])
                    /\ Min(shared[e][i], shared[e][j]) = m1
                    /\ Max(shared[e][i], shared[e][j]) = m2})

\* The keys of shared_count, in the order of the BTreeMap.
RECURSIVE SortedPairs(_)
SortedPairs(S) ==
    IF S = {} THEN <<>>
    ELSE LET p == CHOOSE x \in S :
                      \A y \in S : x[1] < y[1] \/ (x[1] = y[1] /\ x[2] <= y[2])
         IN  <<p>> \o SortedPairs(S \ {p})

\* mod.rs:283-286: both directions are pushed, with indices relative to the
\* start of the range.
RECURSIVE push_connections(_, _, _, _)
push_connections(conns, keys, shared, start) ==
    IF keys = <<>> THEN conns
    ELSE LET m1    == Head(keys)[1]
             m2    == Head(keys)[2]
             count == shared_count(shared, m1, m2)
             c1    == [conns EXCEPT ![m1 - start + 1] = Append(@, <<m2 - start, count>>)]
             c2    == [c1 EXCEPT ![m2 - start + 1] = Append(@, <<m1 - start, count>>)]
         IN  push_connections(c2, Tail(keys), shared, start)

find_connections(range, ms) ==
    LET shared == shared_edges(<<>>, ms, range[1], range[2])
        keys   == SortedPairs({<<m1, m2>> \in (range[1]..(range[2] - 1)) \X (range[1]..(range[2] - 1)) :
                                  shared_count(shared, m1, m2) > 0})
    IN  push_connections([k \in 1..(range[2] - range[1]) |-> <<>>], keys, shared, range[1])

\* generate_groups calls find_connections(range.clone(), meshlets) (mod.rs:218).
FindConnections ==
    /\ n_pc = "called"
    /\ n_out' = find_connections(n_range, n_meshlets)
    /\ n_pc' = "returned"
    /\ UNCHANGED <<n_meshlets, n_range>>
    /\ UNCHANGED <<coreVars, loadVars, importVars, graphVars, codecVars, renderVars,
                   aliasVars, teardownVars, frameVars, visVars,
                   moreVars>>

\* The next level is grouped: the same meshlets, another range.
ConnNextRange(start) ==
    /\ n_pc = "returned"
    /\ start # n_range[1]
    /\ n_range' = <<start, Len(n_meshlets)>>
    /\ n_pc' = "called"
    /\ n_out' = <<>>
    /\ UNCHANGED n_meshlets
    /\ UNCHANGED <<coreVars, loadVars, importVars, graphVars, codecVars, renderVars,
                   aliasVars, teardownVars, frameVars, visVars,
                   moreVars>>

ConnInit ==
    /\ n_pc = "called"
    /\ n_meshlets \in [1..MaxConnMeshlets -> ConnMeshlets]
    /\ n_range = <<0, MaxConnMeshlets>>
    /\ n_out = <<>>

ConnNext ==
    \/ FindConnections
    \/ \E start \in 0..1 : ConnNextRange(start)

ConnSpecInit ==
    /\ CoreInit /\ LoadIdle /\ ImportIdle /\ GraphIdle /\ CodecIdle /\ RenderIdle
    /\ AliasIdle /\ TeardownIdle /\ FrameIdle /\ VisIdle /\ ConnInit /\ MoreIdle

ConnSpec == ConnSpecInit /\ [][ConnNext]_vars

----------------------------------------------------------------------------
(* Claims about the meshlet adjacency *)

\* The unordered vertex pairs that are edges of a triangle of meshlet mid.
EdgeSet(mid) ==
    UNION {{{t[1], t[2]}, {t[2], t[3]}, {t[3], t[1]}} :
              t \in Range(n_meshlets[mid + 1])}

\* The number of edges the meshlets a and b of the range have in common
\* (a and b are counted from the start of the range).
SharedEdges(a, b) ==
    Cardinality(EdgeSet(a + n_range[1]) \cap EdgeSet(b + n_range[1]))

\* Meshlet b is in the list of meshlet a with weight w.
Connected(a, b, w) == <<b, w>> \in Range(n_out[a + 1])

\* C29: find_connections returns a symmetric adjacency over the active
\* meshlets: b is in a's list with weight w iff a is in b's list with weight
\* w; w is the number of distinct unordered vertex-pair edges that occur in
\* the triangles of both; no meshlet is connected to itself; a neighbour
\* appears at most once in a list.
C29_ConnectionsSymmetric ==
    n_pc = "returned" =>
        LET n == n_range[2] - n_range[1] IN
        /\ Len(n_out) = n
        /\ \A a \in 0..(n - 1) :
               /\ \A k \in DOMAIN n_out[a + 1] :
                      LET b == n_out[a + 1][k][1]
                          w == n_out[a + 1][k][2]
                      IN  /\ b \in 0..(n - 1)
                          /\ b # a
                          /\ Connected(b, a, w)
                          /\ w = SharedEdges(a, b)
                          /\ w > 0
                          /\ \A j \in DOMAIN n_out[a + 1] :
                                 n_out[a + 1][j][1] = b => j = k
               /\ \A b \in 0..(n - 1) :
                      (b # a /\ SharedEdges(a, b) > 0) => Connected(a, b, SharedEdges(a, b))

\* Three meshlets: the first shares two edges with the second, through
\* triangles wound differently, and one edge with the third.
C29_Witness ==
    /\ n_pc = "returned"
    /\ n_range = <<0, 3>>
    /\ Connected(0, 1, 2)
    /\ Connected(1, 0, 2)
    /\ Connected(0, 2, 1)
    /\ Connected(2, 0, 1)
    /\ Connected(2, 1, 2)

----------------------------------------------------------------------------
(* Claims about the parallel simplification of a level *)

\* A step of one task of the worker pool.
TaskStep == pc = "par" /\ pc' = "par" /\ par' # par

\* The position before the first meshlet appended for group g: the results
\* are collected in the order of the groups, whatever the order in which the
\* tasks completed.
AppendOffset(g) ==
    Len(meshlets) + SumSeq([h \in 1..(g - 1) |->
                               IF par[h].tag = "some" THEN Len(par[h].clusters) ELSE 0])

\* The groups of the level that hold meshlet mid and were simplified.
SimplifiedGroupsOf(mid) ==
    {g \in DOMAIN groups : par[g].tag = "some" /\ mid \in Range(groups[g])}

\* C30: the result of a level does not depend on the interleaving of the
\* parallel tasks.  A task changes nothing but its own result slot, which it
\* takes from the outcomes determined by the meshlets of the level start and
\* its own group; the merge then writes, for the fixed grouping and these
\* results, the same parent_group_error values and appends the same meshlets
\* in the order of the groups.
C30_ScheduleIndependent ==
    [][/\ TaskStep =>
              /\ UNCHANGED <<meshlets, groups, simplify, lod, next_start>>
              /\ \E g \in DOMAIN par :
                     /\ par[g].tag = "pending"
                     /\ par' = [par EXCEPT ![g] = par'[g]]
                     /\ par'[g] \in GroupTask(meshlets, groups[g])
       /\ MergeStep =>
              /\ Len(meshlets') = AppendOffset(Len(groups) + 1)
              /\ \A i \in DOMAIN meshlets :
                     /\ meshlets'[i].tri_count = meshlets[i].tri_count
                     /\ meshlets'[i].group_error = meshlets[i].group_error
                     /\ meshlets'[i].from = meshlets[i].from
                     /\ \A g \in SimplifiedGroupsOf(i - 1) :
                            meshlets'[i].parent_group_error = par[g].error
                     /\ SimplifiedGroupsOf(i - 1) = {} =>
                            meshlets'[i].parent_group_error = meshlets[i].parent_group_error
              /\ \A g \in DOMAIN groups :
                     par[g].tag = "some" =>
                         \A k \in DOMAIN par[g].clusters :
                             meshlets'[AppendOffset(g) + k] =
                                 [tri_count          |-> par[g].clusters[k],
                                  group_error        |-> par[g].error,
                                  parent_group_error |-> F32_INFINITY,
                                  from               |-> Range(groups[g])]
      ]_vars

\* The first level of five leaves has been merged: both of its groups were
\* simplified by a task of their own and both produced meshlets.
C30_Witness ==
    /\ pc = "loop"
    /\ lod = 2
    /\ Len(par) = 2
    /\ \A g \in DOMAIN par : par[g].tag = "some" /\ Len(par[g].clusters) > 0
    /\ Len(meshlets) = next_start + Len(par[1].clusters) + Len(par[2].clusters)
    /\ \A i \in 1..next_start : meshlets[i].parent_group_error # F32_INFINITY

----------------------------------------------------------------------------
(* Claims about the sizes and the ranges of the converted meshlets *)

VertexEnd(i) ==
    IF i = 0 THEN 0
    ELSE c_mesh.meshlets[i].vertex_offset + c_mesh.meshlets[i].vert_count

IndexEnd(i) ==
    IF i = 0 THEN 0
    ELSE c_mesh.meshlets[i].index_offset + 3 * c_mesh.meshlets[i].tri_count

\* C32: in the mesh produced by convert_meshlets the vertex ranges of the
\* meshlets, in meshlet order, tile [0, vertices.len()) without gap or
\* overlap, and the index ranges tile [0, indices.len()) likewise.
C32_RangesTile ==
    c_pc # "import" =>
        /\ \A i \in DOMAIN c_mesh.meshlets :
               /\ c_mesh.meshlets[i].vertex_offset = VertexEnd(i - 1)
               /\ c_mesh.meshlets[i].index_offset = IndexEnd(i - 1)
        /\ VertexEnd(Len(c_mesh.meshlets)) = Len(c_mesh.vertices)
        /\ IndexEnd(Len(c_mesh.meshlets)) = Len(c_mesh.indices)

\* Three meshlets of different sizes were converted; the third starts
\* where the second ends, past the start of the arrays.
C32_Witness ==
    /\ c_pc = "converted"
    /\ Len(c_mesh.meshlets) = 3
    /\ c_mesh.meshlets[2].vert_count # c_mesh.meshlets[1].vert_count
    /\ c_mesh.meshlets[2].tri_count # c_mesh.meshlets[1].tri_count
    /\ c_mesh.meshlets[3].vertex_offset = MaxMeshletVerts + 3
    /\ c_mesh.meshlets[3].index_offset = 3 * (MaxMeshletTris + 1)

----------------------------------------------------------------------------
(* Claims about the buffers a load fills *)

\* meshlet_count of the model of instance i (from 0) of scene u.
InstanceMeshlets(u, i) == ModelMeshletCount(ModelMeshes(SceneNodes(u)[i + 1]))

\* C33: the meshlet-pointer buffer of a loaded scene holds, for each instance
\* i in node order and each meshlet m of that instance's model, exactly one
\* entry (i, m), grouped by instance in increasing order; every entry has
\* instance < instance_count and meshlet < meshlet_count of its model.
C33_MeshletPointersEnumerate ==
    \A a \in Range(assets) :
        a.kind = "Scene" =>
            /\ \A k \in DOMAIN a.pointers :
                   /\ a.pointers[k].instance \in 0..(a.instance_count - 1)
                   /\ a.pointers[k].meshlet \in
                          0..(InstanceMeshlets(a.uuid, a.pointers[k].instance) - 1)
            /\ \A i \in 0..(Len(SceneNodes(a.uuid)) - 1) :
                   \A m \in 0..(InstanceMeshlets(a.uuid, i) - 1) :
                       Cardinality({k \in DOMAIN a.pointers :
                                       a.pointers[k] = [instance |-> i, meshlet |-> m]}) = 1
            /\ \A k \in 1..(Len(a.pointers) - 1) :
                   \/ a.pointers[k].instance < a.pointers[k + 1].instance
                   \/ /\ a.pointers[k].instance = a.pointers[k + 1].instance
                      /\ a.pointers[k].meshlet + 1 = a.pointers[k + 1].meshlet

\* The scene of three instances of two models is loaded: its second
\* instance has three meshlets, its third repeats the model of the first.
C33_Witness ==
    \E a \in Range(assets) :
        /\ a.kind = "Scene"
        /\ a.instance_count = 3
        /\ Len(a.pointers) = 7
        /\ a.pointers[5] = [instance |-> 1, meshlet |-> 2]
        /\ a.pointers[7] = [instance |-> 2, meshlet |-> 1]

----------------------------------------------------------------------------
(* AssetRuntime::load_mesh_from_disk (asset-runtime/src/mesh.rs:70-164)     *)
(* The buffer is a sequence of bytes; a byte is tagged with the section     *)
(* that wrote it and the item it belongs to.                                *)

MaxLoadMeshlets == 3
MaxSubmeshes == 3

\* size_of::<GpuSubMesh>(), size_of::<GpuMeshlet>(), size_of::<GpuVertex>()
SizeOfGpuSubMesh == 4
SizeOfGpuMeshlet == 36
SizeOfGpuVertex == 16
SizeOfU32 == 4

\* The meshlets of the mesh assets read here: three or four vertices, one or
\* two triangles.
LoadMeshShapes == [vertex_count : {3, 4}, tri_count : {1, 2}]

\* Submesh.meshlets of the submeshes of a mesh of `count` meshlets: at most
\* k consecutive ranges <<start, end>> (end exclusive) from `start` on that
\* cover the meshlets; a range may be empty.
RECURSIVE RangeLists(_, _, _)
RangeLists(start, count, k) ==
    (IF start = count THEN {<<>>} ELSE {})
    \cup (IF k = 0 THEN {}
          ELSE UNION {{<<<<start, e>>>> \o r : r \in RangeLists(e, count, k - 1)} :
                         e \in start..count})

\* The mesh assets: what convert_meshlets wrote, with its submeshes.
MeshAssets ==
    UNION {{[meshlets  |-> convert_meshlets(q, EmptyMesh).meshlets,
             vertices  |-> convert_meshlets(q, EmptyMesh).vertices,
             indices   |-> convert_meshlets(q, EmptyMesh).indices,
             submeshes |-> r] : r \in RangeLists(0, Len(q), MaxSubmeshes)} :
              q \in SeqsUpTo(LoadMeshShapes, MaxLoadMeshlets)}

Rep(n, x) == [k \in 1..n |-> x]

\* Variant of index_byte_len with four bytes for every index.
index_byte_len_per_index(n) == n * SizeOfU32

\* mesh.rs:84: index_byte_len = indices.len() / 3 * size_of::<u32>()
index_byte_len(n) == (n \div 3) * SizeOfU32

\* mesh.rs:77-85: the offsets of the sections and the size of the buffer.
mesh_layout(m) ==
    LET submesh_byte_offset == 0
        submesh_byte_len    == Len(m.submeshes) * SizeOfGpuSubMesh
        meshlet_byte_offset == submesh_byte_offset + submesh_byte_len
        meshlet_byte_len    == Len(m.meshlets) * SizeOfGpuMeshlet
        vertex_byte_offset  == meshlet_byte_offset + meshlet_byte_len
        vertex_byte_len     == Len(m.vertices) * SizeOfGpuVertex
        index_byte_offset   == vertex_byte_offset + vertex_byte_len
    IN  [submesh_byte_offset |-> submesh_byte_offset,
         meshlet_byte_offset |-> meshlet_byte_offset,
         vertex_byte_offset  |-> vertex_byte_offset,
         index_byte_offset   |-> index_byte_offset,
         size                |-> index_byte_offset + index_byte_len(Len(m.indices))]

\* Range::contains
range_contains(r, i) == r[1] <= i /\ i < r[2]

\* mesh.rs:121-143: the submesh of each meshlet.  srs is what the iterator
\* over the submesh ranges has left, curr the range taken last, curr_i its
\* index; srs.next().unwrap() panics when nothing is left.
RECURSIVE assign_submeshes(_, _, _, _, _, _)
assign_submeshes(srs, curr, curr_i, i, count, acc) ==
    IF i >= count THEN [panic |-> FALSE, submesh |-> acc]
    ELSE IF range_contains(curr, i)
         THEN assign_submeshes(srs, curr, curr_i, i + 1, count, Append(acc, curr_i))
         ELSE IF srs = <<>> THEN [panic |-> TRUE, submesh |-> acc]
              ELSE assign_submeshes(Tail(srs), Head(srs), curr_i + 1, i + 1, count,
                                    Append(acc, curr_i + 1))

\* mesh.rs:144-156: the GpuMeshlet written for meshlet me.
gpu_meshlet(layout, me, submesh) ==
    [vertex_byte_offset |-> as_u32(layout.vertex_byte_offset)
                            + me.vertex_offset * SizeOfGpuVertex,
     index_byte_offset  |-> as_u32(layout.index_byte_offset)
                            + (me.index_offset \div 3) * SizeOfU32,
     vertex_count       |-> me.vert_count,
     triangle_count     |-> me.tri_count,
     submesh            |-> submesh]

\* mesh.rs:161-164: every chunk of three indices, then one zero byte.
tri_bytes(indices) ==
    Flatten([t \in 1..((Len(indices) + 2) \div 3) |->
                [k \in 1..Min(3, Len(indices) - 3 * (t - 1)) |->
                    [sec |-> "index", item |-> 3 * (t - 1) + k - 1]]
                \o <<[sec |-> "pad", item |-> t - 1]>>])

\* The bytes the writer puts into the buffer, in the order of the writes:
\* the submeshes (98-106), the meshlets (144-156), the vertices (159), the
\* triangles (161-164).
written_bytes(m) ==
    Flatten([i \in DOMAIN m.submeshes |->
                Rep(SizeOfGpuSubMesh, [sec |-> "submesh", item |-> i - 1])])
    \o Flatten([i \in DOMAIN m.meshlets |->
                   Rep(SizeOfGpuMeshlet, [sec |-> "meshlet", item |-> i - 1])])
    \o Flatten([j \in DOMAIN m.vertices |->
                   Rep(SizeOfGpuVertex, [sec |-> "vertex", item |-> j - 1])])
    \o tri_bytes(m.indices)

load_mesh_from_disk(m) ==
    LET layout == mesh_layout(m)
        bytes  == written_bytes(m)
    IN  IF m.submeshes = <<>>
        THEN \* mesh.rs:122: srs.next().unwrap()
             [status |-> "panicked", size |-> layout.size, bytes |-> <<>>, meshlets |-> <<>>]
        ELSE LET sub == assign_submeshes(Tail(m.submeshes), Head(m.submeshes), 0, 0,
                                         Len(m.meshlets), <<>>)
             IN  IF sub.panic \/ Len(bytes) > layout.size
                 THEN [status |-> "panicked", size |-> layout.size, bytes |-> <<>>,
                       meshlets |-> <<>>]
                 ELSE [status   |-> "returned",
                       size     |-> layout.size,
                       bytes    |-> bytes,
                       meshlets |-> [i \in DOMAIN m.meshlets |->
                                        gpu_meshlet(layout, m.meshlets[i], sub.submesh[i])]]

\* The call: loader.sys.load(mesh)? returns the asset or the error of the
\* source (mesh.rs:73).
WriteMeshBuffer(ok) ==
    /\ l_pc = "called"
    /\ IF ok
       THEN /\ l_gpu' = load_mesh_from_disk(l_mesh)
            /\ l_pc' = l_gpu'.status
       ELSE /\ l_gpu' = [status |-> "failed", size |-> 0, bytes |-> <<>>, meshlets |-> <<>>]
            /\ l_pc' = "failed"
    /\ UNCHANGED l_mesh
    /\ UNCHANGED <<coreVars, loadVars, importVars, graphVars, codecVars, renderVars,
                   aliasVars, teardownVars, frameVars, visVars, connVars, progVars>>

\* A failed load is asked for again.
LoadMeshRetry ==
    /\ l_pc = "failed"
    /\ l_pc' = "called"
    /\ l_gpu' = <<>>
    /\ UNCHANGED l_mesh
    /\ UNCHANGED <<coreVars, loadVars, importVars, graphVars, codecVars, renderVars,
                   aliasVars, teardownVars, frameVars, visVars, connVars, progVars>>

MeshInit ==
    /\ l_pc = "called"
    /\ l_mesh \in MeshAssets
    /\ l_gpu = <<>>

MeshNext ==
    \/ \E ok \in BOOLEAN : WriteMeshBuffer(ok)
    \/ LoadMeshRetry

MeshSpecInit ==
    /\ CoreInit /\ LoadIdle /\ ImportIdle /\ GraphIdle /\ CodecIdle /\ RenderIdle
    /\ AliasIdle /\ TeardownIdle /\ FrameIdle /\ VisIdle /\ ConnIdle /\ MeshInit /\ ProgIdle

MeshSpec == MeshSpecInit /\ [][MeshNext]_vars

----------------------------------------------------------------------------
(* Claims about the buffer of a mesh *)

\* The bytes of the buffer a section wrote, as positions (from 0).
SectionBytes(sec) == {p \in 0..(Len(l_gpu.bytes) - 1) : l_gpu.bytes[p + 1].sec \in sec}

\* The positions a..b-1.
Span(a, b) == a..(b - 1)

\* C34: the buffer is laid out as consecutive submesh, meshlet, vertex and
\* index sections without gap or overlap; the bytes written are as many as
\* were allocated; a triangle takes four bytes, three index bytes and one
\* pad byte; vertex_byte_offset and index_byte_offset of each GpuMeshlet
\* address the first vertex and the first triangle of its meshlet.
C34_BufferLayout ==
    l_pc = "returned" =>
        LET s == Len(l_mesh.submeshes) * 4
            m == Len(l_mesh.meshlets) * 36
            v == Len(l_mesh.vertices) * 16
            t == Len(l_mesh.indices) \div 3
        IN  /\ Len(l_gpu.bytes) = l_gpu.size
            /\ SectionBytes({"submesh"}) = Span(0, s)
            /\ SectionBytes({"meshlet"}) = Span(s, s + m)
            /\ SectionBytes({"vertex"}) = Span(s + m, s + m + v)
            /\ SectionBytes({"index", "pad"}) = Span(s + m + v, s + m + v + 4 * t)
            /\ \A k \in 0..(t - 1) :
                   /\ \A j \in 0..2 :
                          l_gpu.bytes[s + m + v + 4 * k + j + 1] =
                              [sec |-> "index", item |-> 3 * k + j]
                   /\ l_gpu.bytes[s + m + v + 4 * k + 4].sec = "pad"
            /\ \A i \in DOMAIN l_gpu.meshlets :
                   LET g  == l_gpu.meshlets[i]
                       me == l_mesh.meshlets[i]
                   IN  /\ \A b \in 1..16 :
                              l_gpu.bytes[g.vertex_byte_offset + b] =
                                  [sec |-> "vertex", item |-> me.vertex_offset]
                       /\ l_gpu.bytes[g.index_byte_offset + 1] =
                              [sec |-> "index", item |-> me.index_offset]

\* A mesh of three meshlets in two submeshes was loaded; its last meshlet
\* starts at the ninth vertex and the fourth triangle.
C34_Witness ==
    /\ l_pc = "returned"
    /\ Len(l_mesh.submeshes) = 2
    /\ Len(l_gpu.meshlets) = 3
    /\ l_gpu.meshlets[3].vertex_byte_offset = 2 * 4 + 3 * 36 + 8 * 16
    /\ l_gpu.meshlets[3].index_byte_offset = 2 * 4 + 3 * 36 + 12 * 16 + 3 * 4
    /\ l_gpu.size = 2 * 4 + 3 * 36 + 12 * 16 + 5 * 4

\* C39: each meshlet i is given the index of the submesh whose range holds
\* i, for every list of submesh ranges that covers the meshlets, a list with
\* an empty range included; the assignment does not panic when the mesh has
\* a meshlet.
C39_SubmeshOfMeshlet ==
    /\ (l_pc = "panicked") => l_mesh.meshlets = <<>>
    /\ (l_pc = "returned") =>
           \A i \in DOMAIN l_gpu.meshlets :
               range_contains(l_mesh.submeshes[l_gpu.meshlets[i].submesh + 1], i - 1)

----------------------------------------------------------------------------
(* Claims about the double buffering of the visbuffer *)

\* Within a frame the half read and the half written differ, for both
\* buffers; the workgroup half written in a frame is read in the next.
HalvesAlternate ==
    /\ \A f \in DOMAIN v_io :
           /\ v_io[f].rd # v_io[f].wd
           /\ v_io[f].rw # v_io[f].ww
    /\ \A f \in 1..(Len(v_io) - 1) : v_io[f + 1].rw = v_io[f].ww

\* The visibility buffer is created anew exactly in a frame that finds none
\* or one smaller than 8 bytes per meshlet pointer; it never shrinks.
RecreatedOnlyToGrow ==
    /\ \A f \in DOMAIN v_io :
           /\ v_io[f].new <=> (v_io[f].held = 0 \/ v_io[f].held * 8 < v_io[f].count * 8)
           /\ v_io[f].size >= v_io[f].held
           /\ v_io[f].size * 8 >= v_io[f].count * 8
    /\ \A f \in 1..(Len(v_io) - 1) :
           /\ v_io[f + 1].held = v_io[f].size
           /\ v_io[f + 1].new <=> v_io[f + 1].rd[1] # v_io[f].rd[1]

\* C35, as stated: the half written (wd / ww) in frame N is the half read
\* (rd / rw) in frame N+1, in one frame the half read and the half written
\* are never the same buffer, and the visibility buffer is re-created only
\* when absent or too small and never shrinks.
C35_DoubleBuffered ==
    /\ HalvesAlternate
    /\ RecreatedOnlyToGrow
    /\ \A f \in 1..(Len(v_io) - 1) : v_io[f + 1].rd = v_io[f].wd

\* C35, amended: the visibility half written in frame N is the half read in
\* frame N+1 unless frame N+1 re-creates the visibility buffer; then frame
\* N+1 reads a half of the new buffer, which no earlier frame wrote.
C35_DoubleBufferedUnlessRecreated ==
    /\ HalvesAlternate
    /\ RecreatedOnlyToGrow
    /\ \A f \in 1..(Len(v_io) - 1) :
           IF v_io[f + 1].new
           THEN \A g \in 1..f : v_io[g].wd # v_io[f + 1].rd
           ELSE v_io[f + 1].rd = v_io[f].wd

\* Three frames: the second keeps the buffer of the first and reads the
\* half the first wrote; the third finds it too small and starts on a new
\* buffer.
C35_Witness ==
    /\ Len(v_io) >= 3
    /\ ~v_io[2].new
    /\ v_io[2].rd = v_io[1].wd
    /\ v_io[3].new
    /\ v_io[3].rd # v_io[2].wd
    /\ v_io[3].rw = v_io[2].ww

----------------------------------------------------------------------------
(* Claims about the buffer of a model *)

\* The positions (from 0) of the index range of meshlet i (from 1) of a
\* model buffer.
IndexRange(b, i) ==
    Span(b.meshlets[i].index_offset,
         b.meshlets[i].index_offset + 3 * b.meshlets[i].tri_count)

\* C36: in the buffer of a model the index ranges of distinct meshlets are
\* pairwise disjoint, each range addresses exactly the indices written for
\* its meshlet, and every such index is below the vertex_count of the model.
C36_ModelIndexRanges ==
    \A a \in Range(assets) :
        a.kind = "Model" =>
            /\ \A i, j \in DOMAIN a.buffer.meshlets :
                   i # j => IndexRange(a.buffer, i) \cap IndexRange(a.buffer, j) = {}
            /\ \A i \in DOMAIN a.buffer.meshlets :
                   /\ IndexRange(a.buffer, i) =
                          {p \in 0..(Len(a.buffer.indices) - 1) :
                              a.buffer.indices[p + 1].meshlet = i - 1}
                   /\ \A p \in IndexRange(a.buffer, i) :
                          a.buffer.indices[p + 1].value < a.buffer.vertex_count

\* Every id of id_map is an index into assets, of the asset loaded for its
\* UUID; no two UUIDs have the same id.
ValidIds ==
    /\ \A u \in DOMAIN id_map :
           /\ id_map[u] \in 0..(Len(assets) - 1)
           /\ assets[id_map[u] + 1].uuid = u
    /\ \A u, w \in DOMAIN id_map : id_map[u] = id_map[w] => u = w

\* The nodes of scene u that this step loaded before the node at which it
\* failed (none if it failed at no node).
NodesBeforeFailure(u) ==
    LET nodes == SceneNodes(u)
        bad   == {k \in DOMAIN nodes : failures'[nodes[k]] > failures[nodes[k]]}
    IN  {nodes[j] : j \in {i \in DOMAIN nodes : bad # {} /\ \A k \in bad : i < k}}

\* C37: when a scene load fails at some node, the scene is not registered,
\* but every model loaded before the failing node stays registered with a
\* valid id; in every state each id of id_map is a distinct valid index
\* into assets, and assets is never shrunk or rolled back.
C37_PartialSceneLoadKept ==
    [][/\ IsPrefix(assets, assets')
       /\ ValidIds'
       /\ \A u \in DOMAIN id_map : u \in DOMAIN id_map' /\ id_map'[u] = id_map[u]
       /\ \A u \in {"s1", "s2"} :
              (LoadStepOf(u) /\ ~last_load'.ok /\ u \notin DOMAIN id_map) =>
                  /\ u \notin DOMAIN id_map'
                  /\ \A m \in NodesBeforeFailure(u) :
                         /\ m \in DOMAIN id_map'
                         /\ assets'[id_map'[m] + 1].kind = "Model"]_vars

\* The first call loads the scene of three instances and fails at its
\* second node: the model of the first node is registered, the scene and
\* the failed model are not.
C37_Witness ==
    /\ load_calls = 1
    /\ last_load.uuid = "s1"
    /\ ~last_load.ok
    /\ failures["m2"] = 1
    /\ DOMAIN id_map = {"m1"}
    /\ Len(assets) = 1
    /\ assets[id_map["m1"] + 1].uuid = "m1"

----------------------------------------------------------------------------
(* Claims about a failing frame *)

\* The step in which RenderCore::frame returns the error of staging.poll.
PollFails == f_pc = "staging.poll" /\ f_pc' = "idle"

\* C38: if staging.poll fails inside RenderCore::frame, the call returns the
\* error with the deletion queue not advanced, last_frame_snapshot unchanged
\* and no graph frame begun.
C38_PollFailureLeavesFrame ==
    [][PollFails =>
          /\ frame_result' = "err"
          /\ f_trace' = <<"staging.poll">>
          /\ delete' = delete
          /\ destroy_count' = destroy_count
          /\ alloc' = alloc
          /\ last_frame_snapshot' = last_frame_snapshot
          /\ frame' = frame
          /\ submitted' = submitted]_vars

\* A frame call failed in staging.poll after an earlier frame had run, while
\* resources were waiting in the deletion queue.
C38_Witness ==
    /\ f_pc = "idle"
    /\ frame_result = "err"
    /\ f_trace = <<"staging.poll">>
    /\ frame = 1
    /\ delete # {}

----------------------------------------------------------------------------
(***************************************************************************)
(* GltfImporter::import (rad-editor/src/asset/import.rs:84-263)            *)
(*                                                                         *)
(* Four phases run one after the other: images, materials, meshes and      *)
(* scenes.  The items of a phase run on the rayon pool; each item does its *)
(* work, which may fail, then adds one to the phase's AtomicUsize and hands *)
(* the ratio of the count it got to the progress callback.  The add and    *)
(* the call are two steps of the item, so other items may run between them. *)
(***************************************************************************)
MaxItems == 2

Phases == <<"images", "materials", "meshes", "scenes">>

PhaseIds == 1..Len(Phases)

ItemsOf(ph) == 1..p_total[ph]

\* The ImportProgress an item of phase ph builds from the count c it got:
\* the phases before it at their totals, the phases after it at 0.
import_progress(ph, total, c) ==
    [k \in PhaseIds |-> IF k < ph THEN total[k] ELSE IF k = ph THEN c ELSE 0]

RECURSIVE SumTo(_, _)
SumTo(p, k) == IF k = 0 THEN 0 ELSE p[k] + SumTo(p, k - 1)

\* ImportProgress::ratio, the quotient kept as numerator and denominator.
ratio(p, total) == <<SumTo(p, Len(Phases)), SumTo(total, Len(Phases))>>

SetTask(ph, i, at, old) ==
    p_task' = [p_task EXCEPT ![ph][i] = [pc |-> at, old |-> old]]

ProgOthers ==
    <<coreVars, loadVars, importVars, graphVars, codecVars, renderVars,
      aliasVars, teardownVars, frameVars, visVars, connVars, meshVars>>

PhaseRunning == p_result = "running" /\ p_phase \in PhaseIds

\* A worker takes item i of the running phase and enters its closure.
ItemStart(i) ==
    /\ PhaseRunning
    /\ i \in ItemsOf(p_phase)
    /\ p_task[p_phase][i].pc = "todo"
    /\ SetTask(p_phase, i, "work", 0)
    /\ UNCHANGED <<p_total, p_phase, p_prog, p_log, p_result, ProgOthers>>

\* Once an item has returned Err, rayon may drop items it has not started.
ItemSkip(i) ==
    /\ PhaseRunning
    /\ i \in ItemsOf(p_phase)
    /\ p_task[p_phase][i].pc = "todo"
    /\ \E j \in ItemsOf(p_phase) : p_task[p_phase][j].pc = "failed"
    /\ SetTask(p_phase, i, "skipped", 0)
    /\ UNCHANGED <<p_total, p_phase, p_prog, p_log, p_result, ProgOthers>>

\* The work of the item fails: `?` leaves the closure before fetch_add.
ItemFail(i) ==
    /\ PhaseRunning
    /\ i \in ItemsOf(p_phase)
    /\ p_task[p_phase][i].pc = "work"
    /\ SetTask(p_phase, i, "failed", 0)
    /\ UNCHANGED <<p_total, p_phase, p_prog, p_log, p_result, ProgOthers>>

\* let old = prog.fetch_add(1, Ordering::Relaxed);
FetchAdd(i) ==
    /\ PhaseRunning
    /\ i \in ItemsOf(p_phase)
    /\ p_task[p_phase][i].pc = "work"
    /\ SetTask(p_phase, i, "added", p_prog)
    /\ p_prog' = p_prog + 1
    /\ UNCHANGED <<p_total, p_phase, p_log, p_result, ProgOthers>>

\* progress(ImportProgress { .., <phase>: old as u32 + 1, .. }.ratio(total));
\* then the closure returns Ok and its `old` is gone.
Progress(i) ==
    /\ PhaseRunning
    /\ i \in ItemsOf(p_phase)
    /\ p_task[p_phase][i].pc = "added"
    /\ LET p == import_progress(p_phase, p_total, p_task[p_phase][i].old + 1)
       IN  p_log' = Append(p_log, [phase |-> p_phase, progress |-> p,
                                   ratio |-> ratio(p, p_total)])
    /\ SetTask(p_phase, i, "done", 0)
    /\ UNCHANGED <<p_total, p_phase, p_prog, p_result, ProgOthers>>

\* The same end of phase with the `?` left out: the next phase starts although
\* an item returned Err.
PhaseEnd_ignoring_error ==
    /\ PhaseRunning
    /\ \A i \in ItemsOf(p_phase) :
           p_task[p_phase][i].pc \in {"done", "failed", "skipped"}
    /\ IF p_phase = Len(Phases)
       THEN /\ p_result' = "ok"
            /\ UNCHANGED <<p_phase, p_prog, p_log>>
       ELSE /\ p_phase' = p_phase + 1
            /\ p_prog' = 0
            /\ p_log' = <<>>
            /\ UNCHANGED p_result
    /\ UNCHANGED <<p_total, p_task, ProgOthers>>

\* collect::<Result<_, _>>()? and try_for_each return when no item of the
\* phase is running any more: with the first Err, which import returns, or
\* with Ok, after which the next phase starts with a new AtomicUsize and
\* import returns Ok after the last.
PhaseEnd ==
    /\ PhaseRunning
    /\ \A i \in ItemsOf(p_phase) :
           p_task[p_phase][i].pc \in {"done", "failed", "skipped"}
    /\ IF \E i \in ItemsOf(p_phase) : p_task[p_phase][i].pc = "failed"
       THEN /\ p_result' = "err"
            /\ UNCHANGED <<p_phase, p_prog, p_log>>
       ELSE IF p_phase = Len(Phases)
       THEN /\ p_result' = "ok"
            /\ UNCHANGED <<p_phase, p_prog, p_log>>
       ELSE /\ p_phase' = p_phase + 1
            /\ p_prog' = 0
            /\ p_log' = <<>>
            /\ UNCHANGED p_result
    /\ UNCHANGED <<p_total, p_task, ProgOthers>>

\* import is called on a document with up to MaxItems items of each kind.
ProgInit ==
    /\ p_total \in [PhaseIds -> 0..MaxItems]
    /\ p_phase = 1
    /\ p_task = [ph \in PhaseIds |->
                    [i \in 1..p_total[ph] |-> [pc |-> "todo", old |-> 0]]]
    /\ p_prog = 0
    /\ p_log = <<>>
    /\ p_result = "running"

ProgNext ==
    \/ \E i \in 1..MaxItems : ItemStart(i)
    \/ \E i \in 1..MaxItems : ItemSkip(i)
    \/ \E i \in 1..MaxItems : ItemFail(i)
    \/ \E i \in 1..MaxItems : FetchAdd(i)
    \/ \E i \in 1..MaxItems : Progress(i)
    \/ PhaseEnd

ProgSpecInit ==
    /\ CoreInit /\ LoadIdle /\ ImportIdle /\ GraphIdle /\ CodecIdle /\ RenderIdle
    /\ AliasIdle /\ TeardownIdle /\ FrameIdle /\ VisIdle /\ ConnIdle /\ MeshIdle
    /\ ProgInit

ProgSpec == ProgSpecInit /\ [][ProgNext]_vars
----------------------------------------------------------------------------
(* Claims about the import's progress reports *)

\* The counts the callback was given for phase ph, in the order of the calls.
ReportedCounts(ph) ==
    LET of_phase == SelectSeq(p_log, LAMBDA e : e.phase = ph)
    IN  [k \in 1..Len(of_phase) |-> of_phase[k].progress[ph]]

\* No item of the running phase is in its closure or waiting for a worker:
\* collect or try_for_each is about to return, or import has returned.
PhaseOver(ph) ==
    /\ ph = p_phase
    /\ \A i \in ItemsOf(ph) : p_task[ph][i].pc \in {"done", "failed", "skipped"}

PhaseFailed(ph) == \E i \in ItemsOf(ph) : p_task[ph][i].pc = "failed"

Completed(ph) == {i \in ItemsOf(ph) : p_task[ph][i].pc = "done"}

EachOnce(s) == \A a, b \in 1..Len(s) : s[a] = s[b] => a = b

\* No item of a later phase has started while an item of an earlier phase
\* has not finished.
PhasesInOrder ==
    \A ph, later \in PhaseIds :
        (ph < later /\ \E i \in ItemsOf(later) : p_task[later][i].pc # "todo")
            => \A i \in ItemsOf(ph) : p_task[ph][i].pc = "done"

\* After an item failed its phase stays the running one, import does not
\* return Ok, and no item of a later phase starts or reports.
NothingAfterFailure ==
    \A ph \in PhaseIds :
        PhaseFailed(ph) =>
            /\ p_result # "ok"
            /\ p_phase = ph
            /\ \A later \in PhaseIds :
                   later > ph => \A i \in ItemsOf(later) : p_task[later][i].pc = "todo"
            /\ \A k \in 1..Len(p_log) : p_log[k].phase = ph

\* The statement as given: when the items of a phase are over, by Ok or by
\* Err, the counts reported in it are exactly 1..n for its n items, each once.
C40_CountsAreOneToN ==
    \A ph \in PhaseIds :
        PhaseOver(ph) =>
            /\ Range(ReportedCounts(ph)) = 1..p_total[ph]
            /\ EachOnce(ReportedCounts(ph))

\* C40: in every interleaving the counts reported in a phase are distinct,
\* one per item that completed, and among the counts handed out by the
\* phase's counter; when the items of the phase are over they are exactly
\* 1..k for the k items that completed, which is 1..n for the n items of the
\* phase when no item failed.  No item of a later phase starts before every
\* item of the earlier phase has finished, and after a failing item no later
\* phase runs.
C40_CountsOfCompletedItems ==
    /\ \A k \in 1..Len(p_log) : p_log[k].phase = p_phase
    /\ \A ph \in PhaseIds :
           /\ EachOnce(ReportedCounts(ph))
           /\ ph = p_phase =>
                  /\ Len(ReportedCounts(ph)) = Cardinality(Completed(ph))
                  /\ Range(ReportedCounts(ph)) \subseteq 1..p_prog
           /\ PhaseOver(ph) =>
                  Range(ReportedCounts(ph)) = 1..Cardinality(Completed(ph))
           /\ (PhaseOver(ph) /\ ~PhaseFailed(ph)) =>
                  Range(ReportedCounts(ph)) = 1..p_total[ph]
    /\ PhasesInOrder
    /\ NothingAfterFailure

\* An import returned Ok: its two scenes reported their counts in the
\* opposite order of their fetch_adds, after two meshes had run.
C40_Witness ==
    /\ p_result = "ok"
    /\ ReportedCounts(4) = <<2, 1>>
    /\ p_total[3] = 2
    /\ \A i \in ItemsOf(3) : p_task[3][i].pc = "done"

====
